---- MODULE Spec2Model ----
(***************************************************************************)
(* A model of the data aggregation layer of TradingAgentsFork:             *)
(*   tradingagents/dataflows/coingecko_utils.py   (price / market client)  *)
(*   tradingagents/dataflows/onchain_utils.py     (on-chain client)        *)
(*   tradingagents/dataflows/cryptonews_utils.py  (news client)            *)
(*   tradingagents/dataflows/crypto_interface.py  (tool functions)         *)
(*                                                                         *)
(* The module holds several specifications over one set of variables.     *)
(* Each specification drives one group of variables and leaves the other  *)
(* groups at their idle values:                                            *)
(*   SpecRate, SpecRateConc   the rate limiter (_rate_limit), sequential   *)
(*                            and with concurrent callers                  *)
(***************************************************************************)
EXTENDS Integers, Sequences, FiniteSets, TLC

(***************************************************************************)
(* Bounds of the model.                                                    *)
(***************************************************************************)
\* Time is counted in units of 0.2 s.  time.time() is seconds since the epoch,
\* far above any rate_limit_delay: the clock starts at StartTime units.
StartTime == 7
\* The clock runs for ClockSpan units after StartTime.
ClockSpan == 7
\* Requests issued in one run.
MaxRequests == 3

(***************************************************************************)
(* Program constants.                                                      *)
(***************************************************************************)
\* CoinGeckoUtils.rate_limit_delay = 1.2 s, in units of 0.2 s.
CoinGeckoDelay == 6
\* OnChainUtils.rate_limit_delay = 1.0 s, in units of 0.2 s.
OnChainDelay == 5
\* CryptoNewsUtils.rate_limit_delay = 1.0 s, in units of 0.2 s.
CryptoNewsDelay == 5
\* Satoshi per BTC and Wei per ETH: the model counts amounts in units of 1e6
\* satoshi and of 1e16 Wei (the code divides by 1e8 and by 1e18).
SatoshiPerBtc == 100
WeiPerEth == 100

VARIABLES
    \* ---- rate limiter ----
    now,                \* time.time(), in units of 0.2 s
    last_request_time,  \* per <<client, tag>>: self.last_request_time[tag]
    pc,                 \* per caller: its position in _make_request
    csrc,               \* per caller: the <<client, tag>> it requests
    current_time,       \* per caller: the local current_time of _rate_limit
    last_seen,          \* per caller: the last_request_time it read
    wake,               \* per caller: the earliest end of its time.sleep
    dispatched,         \* history: the request dispatched last
    nrequests,          \* history: the number of requests started
    \* ---- client operations and tool functions ----
    keys,               \* the credentials the clients were constructed with
    call,               \* the operation called last, with what the upstreams answer
    result,             \* what it returned or raised
    requests,           \* the requests it issued, in order
    \* ---- analyst nodes ----
    config,             \* toolkit.config
    state,              \* the graph state the analyst nodes read and update
    round               \* history: the node run last, its tools and its update

rateVars == <<now, last_request_time, pc, csrc, current_time, last_seen, wake,
              dispatched, nrequests>>
apiVars == <<keys, call, result, requests>>
nodeVars == <<config, state, round>>
vars == <<rateVars, apiVars, nodeVars>>
\* What the rate limiter's steps leave alone.
notRate == <<apiVars, nodeVars>>

(***************************************************************************)
(* Python and JSON values.                                                 *)
(*                                                                         *)
(* A str is a sequence of one-character strings.  A JSON value (and the    *)
(* Python value json() makes of it) is a record with one field that names  *)
(* its type: a number, a string, null (None), an object (dict: a function  *)
(* from keys to values) or an array (list: a sequence of values).  A call  *)
(* either returns a value or raises.                                       *)
(***************************************************************************)
JNum(n) == [num |-> n]
JStr(s) == [str |-> s]
JNull == [null |-> TRUE]
JObj(f) == [obj |-> f]
JArr(a) == [arr |-> a]

IsNum(v) == "num" \in DOMAIN v
IsStr(v) == "str" \in DOMAIN v
IsNone(v) == "null" \in DOMAIN v
IsDict(v) == "obj" \in DOMAIN v
IsList(v) == "arr" \in DOMAIN v

\* {} : the dict with no key
EmptyDict == JObj(<< >>)

\* Python truth value: None, 0, "", {} and [] are false.
Truthy(v) ==
    CASE IsNone(v) -> FALSE
      [] IsNum(v)  -> v.num # 0
      [] IsStr(v)  -> v.str # << >>
      [] IsDict(v) -> DOMAIN v.obj # {}
      [] IsList(v) -> v.arr # << >>

\* key in d, and d.get(key, default), for a dict d
HasKey(d, key) == key \in DOMAIN d.obj
Get(d, key, default) == IF key \in DOMAIN d.obj THEN d.obj[key] ELSE default

\* body with the value of v for its parameter: v is evaluated once, as the
\* right-hand side of an assignment is
Let(v, body(_)) == CHOOSE y \in {body(x) : x \in {v}} : TRUE

\* A call returns a value, or raises an exception.
Ret(v) == [ok |-> TRUE, val |-> v]
Raise(e) == [ok |-> FALSE, exc |-> e]

LowerLetters == <<"a", "b", "c", "d", "e", "f", "g", "h", "i", "j", "k", "l", "m", "n", "o", "p", "q", "r", "s", "t", "u", "v", "w", "x", "y", "z">>
UpperLetters == <<"A", "B", "C", "D", "E", "F", "G", "H", "I", "J", "K", "L", "M", "N", "O", "P", "Q", "R", "S", "T", "U", "V", "W", "X", "Y", "Z">>

\* str.upper() and str.lower()
UpperChar(ch) ==
    IF \E i \in 1..26 : LowerLetters[i] = ch
       THEN UpperLetters[CHOOSE i \in 1..26 : LowerLetters[i] = ch]
       ELSE ch
LowerChar(ch) ==
    IF \E i \in 1..26 : UpperLetters[i] = ch
       THEN LowerLetters[CHOOSE i \in 1..26 : UpperLetters[i] = ch]
       ELSE ch
upper(s) == [i \in 1..Len(s) |-> UpperChar(s[i])]
lower(s) == [i \in 1..Len(s) |-> LowerChar(s[i])]

(***************************************************************************)
(* More of Python: int(), number formatting, arithmetic, str comparison.   *)
(***************************************************************************)
Abs(n) == IF n < 0 THEN -n ELSE n
Min(a, b) == IF a < b THEN a ELSE b

Digits == <<"0", "1", "2", "3", "4", "5", "6", "7", "8", "9">>
IsDigit(ch) == \E i \in 1..Len(Digits) : Digits[i] = ch
DigitValue(ch) == (CHOOSE i \in 1..Len(Digits) : Digits[i] = ch) - 1

RECURSIVE DecimalValue(_)
DecimalValue(s) ==
    IF s = << >> THEN 0
    ELSE 10 * DecimalValue(SubSeq(s, 1, Len(s) - 1)) + DigitValue(s[Len(s)])

\* int(v), and float(v) of the whole numbers the payloads of the model
\* carry: a number as it is, a str of digits parsed, any other str a
\* ValueError, anything else a TypeError
py_int(v) ==
    CASE IsNum(v) -> Ret(v)
      [] IsStr(v) -> IF v.str # << >> /\ \A i \in 1..Len(v.str) : IsDigit(v.str[i])
                        THEN Ret(JNum(DecimalValue(v.str)))
                        ELSE Raise("ValueError")
      [] OTHER    -> Raise("TypeError")

\* What f"{v:,}", f"{v:,.0f}", f"{v:.2f}" raise: nothing for a number,
\* ValueError for a str, TypeError for None, a dict or a list ("" is nothing).
fmt_error(v) ==
    CASE IsNum(v) -> ""
      [] IsStr(v) -> "ValueError"
      [] OTHER    -> "TypeError"

\* What v / 1e8 or v * x raises.
arith_error(v) == IF IsNum(v) THEN "" ELSE "TypeError"

\* The exception an expression raises whose parts are evaluated in order.
FirstError(errs) ==
    IF \A i \in 1..Len(errs) : errs[i] = "" THEN ""
    ELSE errs[CHOOSE i \in 1..Len(errs) :
                 errs[i] # "" /\ \A j \in 1..(i - 1) : errs[j] = ""]

\* seq[:n]
PrefixWhole(seq, n) == seq
Prefix(seq, n) == SubSeq(seq, 1, Min(n, Len(seq)))

\* The characters of the model's strings, in code point order.
Chars == <<" ", ",", "-", ".", "0", "1", "2", "3", "4", "5", "6", "7", "8", "9", ":">>
         \o UpperLetters \o LowerLetters
Ord(ch) == CHOOSE i \in 1..Len(Chars) : Chars[i] = ch

\* a < b for two str
RECURSIVE StrLess(_, _)
StrLess(a, b) ==
    CASE a = << >> -> b # << >>
      [] b = << >> -> FALSE
      [] OTHER -> \/ Ord(a[1]) < Ord(b[1])
                  \/ a[1] = b[1] /\ StrLess(Tail(a), Tail(b))

\* sub in s, for two str
Contains(s, sub) ==
    \E i \in 1..(Len(s) - Len(sub) + 1) : SubSeq(s, i, i + Len(sub) - 1) = sub


\* "".join(s): the characters of a str as one string of the text
RECURSIVE Joined(_)
Joined(s) == IF s = << >> THEN "" ELSE s[1] \o Joined(Tail(s))

\* str(v), what an f-string field without a format shows of v
py_str(v) ==
    CASE IsStr(v)  -> Joined(v.str)
      [] IsNum(v)  -> ToString(v.num)
      [] IsNone(v) -> "None"
      [] IsDict(v) -> IF DOMAIN v.obj = {} THEN "{}" ELSE "{...}"
      [] IsList(v) -> IF v.arr = << >> THEN "[]" ELSE "[...]"

\* f"{n:,}" and f"{n:,.0f}" of a whole number n: its digits in groups of three
RECURSIVE Grouped(_)
Grouped(n) ==
    IF n < 1000 THEN ToString(n)
    ELSE Grouped(n \div 1000) \o ","
         \o (IF n % 1000 < 10 THEN "00" ELSE IF n % 1000 < 100 THEN "0" ELSE "")
         \o ToString(n % 1000)
fmt_grouped(n) == IF n < 0 THEN "-" \o Grouped(-n) ELSE Grouped(n)

\* f"{n:.2f}" and f"{n:+.2f}" of a whole number n
fmt_2f(n) == ToString(n) \o ".00"
fmt_signed_2f(n) == (IF n < 0 THEN "" ELSE "+") \o ToString(n) \o ".00"

(***************************************************************************)
(* HTTP: what requests.get meets.                                          *)
(***************************************************************************)
\* The response to one request: a JSON body with a status below 400, or a
\* transport failure / timeout, a status of 400 or more, or a body that is no
\* JSON.
Ok(body) == [status |-> "ok", body |-> body]
TransportError == [status |-> "transport"]
HttpError == [status |-> "http"]
BadJson == [status |-> "badjson"]
Failures == {TransportError, HttpError, BadJson}

\* A request as it goes out: the client, the rate-limit tag it was stamped
\* with ("" when _rate_limit was not called), the endpoint, and the coin id
\* and the days parameter where the endpoint takes one.
Request(client, tag, endpoint, id, days) ==
    [client |-> client, tag |-> tag, endpoint |-> endpoint, id |-> id,
     days |-> days]

\* The timeout a request is sent with, in seconds; 0 when the call that
\* sends it is given none (feedparser.parse(url) in the feed readers).
request_timeout(req) ==
    CASE req.endpoint = "rss" -> 0
      [] req.endpoint \in {"/fng/", "/q/unconfirmedcount", "blockchain/latest",
                           "social/coin/latest"} -> 10
      [] req.client = "coingecko" -> 10
      [] OTHER -> 15

\* A call's outcome: what it returned or raised, and the requests it issued.
Outcome(r, reqs) == [r |-> r, reqs |-> reqs]

(***************************************************************************)
(* CoinGeckoUtils.                                                         *)
(***************************************************************************)
SYMBOL_TO_ID ==
    <<"B", "T", "C">> :> <<"b", "i", "t", "c", "o", "i", "n">> @@
    <<"E", "T", "H">> :> <<"e", "t", "h", "e", "r", "e", "u", "m">> @@
    <<"S", "O", "L">> :> <<"s", "o", "l", "a", "n", "a">> @@
    <<"M", "A", "T", "I", "C">> :> <<"m", "a", "t", "i", "c", "-", "n", "e", "t", "w", "o", "r", "k">> @@
    <<"A", "V", "A", "X">> :> <<"a", "v", "a", "l", "a", "n", "c", "h", "e", "-", "2">> @@
    <<"B", "N", "B">> :> <<"b", "i", "n", "a", "n", "c", "e", "c", "o", "i", "n">> @@
    <<"A", "D", "A">> :> <<"c", "a", "r", "d", "a", "n", "o">> @@
    <<"D", "O", "T">> :> <<"p", "o", "l", "k", "a", "d", "o", "t">> @@
    <<"L", "I", "N", "K">> :> <<"c", "h", "a", "i", "n", "l", "i", "n", "k">> @@
    <<"U", "N", "I">> :> <<"u", "n", "i", "s", "w", "a", "p">> @@
    <<"A", "T", "O", "M">> :> <<"c", "o", "s", "m", "o", "s">> @@
    <<"X", "R", "P">> :> <<"r", "i", "p", "p", "l", "e">> @@
    <<"D", "O", "G", "E">> :> <<"d", "o", "g", "e", "c", "o", "i", "n">> @@
    <<"S", "H", "I", "B">> :> <<"s", "h", "i", "b", "a", "-", "i", "n", "u">> @@
    <<"L", "T", "C">> :> <<"l", "i", "t", "e", "c", "o", "i", "n">> @@
    <<"B", "C", "H">> :> <<"b", "i", "t", "c", "o", "i", "n", "-", "c", "a", "s", "h">> @@
    <<"N", "E", "A", "R">> :> <<"n", "e", "a", "r">> @@
    <<"A", "P", "T">> :> <<"a", "p", "t", "o", "s">> @@
    <<"A", "R", "B">> :> <<"a", "r", "b", "i", "t", "r", "u", "m">> @@
    <<"O", "P">> :> <<"o", "p", "t", "i", "m", "i", "s", "m">>

\* _make_request after _rate_limit: response.json(), or {} on a
\* RequestException (raise_for_status on a status >= 400; a body that is no
\* JSON raises requests' JSONDecodeError, a RequestException).
cg_make_request(resp) == IF resp.status = "ok" THEN resp.body ELSE EmptyDict

\* A slip: the table is looked up with the ticker as given.
table_key_as_given(symbol) == symbol

\* symbol = symbol.upper(): the key get_coin_id looks up in the table
table_key(symbol) == upper(symbol)

\* A slip: the fallback is the ticker as it is, in upper case.
fallback_id_upper(sym) == sym

\* return symbol.lower(): the fallback of get_coin_id
fallback_id(sym) == lower(sym)

\* get_coin_id(symbol), where search is the upstream's response to /search
get_coin_id(symbol, search) ==
    LET sym == table_key(symbol)
    IN  IF sym \in DOMAIN SYMBOL_TO_ID
           THEN Outcome(Ret(SYMBOL_TO_ID[sym]), << >>)
           ELSE LET data == cg_make_request(search)
                    reqs == <<Request("coingecko", "coingecko", "/search", sym, 0)>>
                IN  IF Truthy(data) /\ HasKey(data, "coins")
                       /\ Len(data.obj["coins"].arr) > 0
                       THEN LET first == data.obj["coins"].arr[1]
                            IN  IF HasKey(first, "id")
                                   THEN Outcome(Ret(first.obj["id"].str), reqs)
                                   ELSE Outcome(Raise("KeyError"), reqs)
                       ELSE Outcome(Ret(fallback_id(sym)), reqs)


(***************************************************************************)
(* The rate limiter.                                                       *)
(***************************************************************************)
\* The callers (threads) that use the shared module-level clients.
Callers == {"t1", "t2"}
MaxTime == StartTime + ClockSpan

\* The module-level clients of crypto_interface and the tags they pass to
\* _rate_limit.  CoinGeckoUtils keeps one scalar timestamp (one tag).
Sources == { <<"coingecko", "coingecko">>,
             <<"onchain", "blockchain.com">>,
             <<"onchain", "etherscan">>,
             <<"cryptonews", "cryptopanic">> }

rate_limit_delay(client) ==
    CASE client = "coingecko"  -> CoinGeckoDelay
      [] client = "onchain"    -> OnChainDelay
      [] client = "cryptonews" -> CryptoNewsDelay

\* A slip: the wait is cut short by one unit.
SleepTimeShort(delay, since) == delay - since - 1

\* time.sleep's argument: self.rate_limit_delay - time_since_last_request
SleepTime(delay, since) == delay - since

NoSource == <<"coingecko", "coingecko">>

\* Nothing dispatched yet.
NoDispatch == [src |-> NoSource, arrive |-> 0, prev |-> 0, before |-> 0, at |-> 0]

RateInit ==
    /\ now = StartTime
    /\ last_request_time = [s \in Sources |-> 0]
    /\ pc = [c \in Callers |-> "idle"]
    /\ csrc = [c \in Callers |-> NoSource]
    /\ current_time = [c \in Callers |-> 0]
    /\ last_seen = [c \in Callers |-> 0]
    /\ wake = [c \in Callers |-> 0]
    /\ dispatched = NoDispatch
    /\ nrequests = 0

\* The clock advances.
Tick ==
    /\ now < MaxTime
    /\ now' = now + 1
    /\ UNCHANGED <<last_request_time, pc, csrc, current_time, last_seen, wake,
                   dispatched, nrequests>>
    /\ UNCHANGED notRate

\* A caller enters _make_request for source s.
Begin(c, s) ==
    /\ pc[c] = "idle"
    /\ nrequests < MaxRequests
    /\ nrequests' = nrequests + 1
    /\ pc' = [pc EXCEPT ![c] = "rate_limit"]
    /\ csrc' = [csrc EXCEPT ![c] = s]
    /\ UNCHANGED <<now, last_request_time, current_time, last_seen, wake,
                   dispatched>>
    /\ UNCHANGED notRate

\* _rate_limit up to the test: read the clock and the last timestamp, and
\* either go to sleep for the remainder or go on.
RateLimitRead(c) ==
    /\ pc[c] = "rate_limit"
    /\ LET delay == rate_limit_delay(csrc[c][1])
           since == now - last_request_time[csrc[c]]
       IN  /\ current_time' = [current_time EXCEPT ![c] = now]
           /\ last_seen' = [last_seen EXCEPT ![c] = last_request_time[csrc[c]]]
           /\ IF since < delay
                 THEN /\ pc' = [pc EXCEPT ![c] = "sleep"]
                      /\ wake' = [wake EXCEPT ![c] = now + SleepTime(delay, since)]
                 ELSE /\ pc' = [pc EXCEPT ![c] = "stamp"]
                      /\ UNCHANGED wake
    /\ UNCHANGED <<now, last_request_time, csrc, dispatched, nrequests>>
    /\ UNCHANGED notRate

\* time.sleep returns: no earlier than the requested time, possibly later.
RateLimitWake(c) ==
    /\ pc[c] = "sleep"
    /\ now >= wake[c]
    /\ pc' = [pc EXCEPT ![c] = "stamp"]
    /\ UNCHANGED <<now, last_request_time, csrc, current_time, last_seen, wake,
                   dispatched, nrequests>>
    /\ UNCHANGED notRate

\* self.last_request_time[tag] = time.time(), and the request goes out.
RateLimitStamp(c) ==
    /\ pc[c] = "stamp"
    /\ last_request_time' = [last_request_time EXCEPT ![csrc[c]] = now]
    /\ dispatched' = [src |-> csrc[c], arrive |-> current_time[c],
                       prev |-> last_seen[c],
                       before |-> last_request_time[csrc[c]], at |-> now]
    /\ pc' = [pc EXCEPT ![c] = "request"]
    /\ UNCHANGED <<now, csrc, current_time, last_seen, wake, nrequests>>
    /\ UNCHANGED notRate

\* requests.get returns (with a payload or an error) and _make_request returns.
Respond(c) ==
    /\ pc[c] = "request"
    /\ pc' = [pc EXCEPT ![c] = "idle"]
    /\ csrc' = [csrc EXCEPT ![c] = NoSource]
    /\ current_time' = [current_time EXCEPT ![c] = 0]
    /\ last_seen' = [last_seen EXCEPT ![c] = 0]
    /\ wake' = [wake EXCEPT ![c] = 0]
    /\ UNCHANGED <<now, last_request_time, dispatched, nrequests>>
    /\ UNCHANGED notRate

\* A sequential run: a request starts when no other one is under way.
BeginAlone(c, s) ==
    /\ \A d \in Callers : pc[d] = "idle"
    /\ Begin(c, s)

RateNextSeq ==
    \/ Tick
    \/ \E c \in Callers, s \in Sources : BeginAlone(c, s)
    \/ \E c \in Callers : RateLimitRead(c)
    \/ \E c \in Callers : RateLimitWake(c)
    \/ \E c \in Callers : RateLimitStamp(c)
    \/ \E c \in Callers : Respond(c)

\* A convenience function (get_crypto_current_price, get_bitcoin_metrics,
\* get_crypto_news, ...) is called for source s when no request is under way:
\* it constructs its own client, whose __init__ sets last_request_time to 0
\* (CoinGeckoUtils) or to {} (OnChainUtils, CryptoNewsUtils).
BeginOwn(c, s) ==
    /\ \A d \in Callers : pc[d] = "idle"
    /\ nrequests < MaxRequests
    /\ nrequests' = nrequests + 1
    /\ pc' = [pc EXCEPT ![c] = "rate_limit_own"]
    /\ csrc' = [csrc EXCEPT ![c] = s]
    /\ UNCHANGED <<now, last_request_time, current_time, last_seen, wake,
                   dispatched>>
    /\ UNCHANGED notRate

\* _rate_limit of the new client up to the end of its sleep: the last
\* timestamp it reads is its own, the 0 of __init__.
RateLimitReadOwn(c) ==
    /\ pc[c] = "rate_limit_own"
    /\ LET delay == rate_limit_delay(csrc[c][1])
           since == now - 0
       IN  /\ current_time' = [current_time EXCEPT ![c] = now]
           /\ last_seen' = [last_seen EXCEPT ![c] = 0]
           /\ wake' = [wake EXCEPT ![c] = IF since < delay
                                             THEN now + SleepTime(delay, since)
                                             ELSE now]
           /\ pc' = [pc EXCEPT ![c] = "stamp_own"]
    /\ UNCHANGED <<now, last_request_time, csrc, dispatched, nrequests>>
    /\ UNCHANGED notRate

\* The new client stamps its own last_request_time, which goes with it when
\* the convenience function returns, and the request goes out.  before is
\* the time of the dispatch before this one when it went to the same source.
RateLimitStampOwn(c) ==
    /\ pc[c] = "stamp_own"
    /\ now >= wake[c]
    /\ dispatched' = [src |-> csrc[c], arrive |-> current_time[c],
                       prev |-> last_seen[c],
                       before |-> IF dispatched # NoDispatch /\ dispatched.src = csrc[c]
                                     THEN dispatched.at ELSE 0,
                       at |-> now]
    /\ pc' = [pc EXCEPT ![c] = "request"]
    /\ UNCHANGED <<now, last_request_time, csrc, current_time, last_seen, wake,
                   nrequests>>
    /\ UNCHANGED notRate

RateNextOwn ==
    \/ Tick
    \/ \E c \in Callers, s \in Sources : BeginOwn(c, s)
    \/ \E c \in Callers : RateLimitReadOwn(c)
    \/ \E c \in Callers : RateLimitStampOwn(c)
    \/ \E c \in Callers : Respond(c)

RateNextConc ==
    \/ Tick
    \/ \E c \in Callers, s \in Sources : Begin(c, s)
    \/ \E c \in Callers : RateLimitRead(c)
    \/ \E c \in Callers : RateLimitWake(c)
    \/ \E c \in Callers : RateLimitStamp(c)
    \/ \E c \in Callers : Respond(c)

(***************************************************************************)
(* The price provider, as the client meets it.                             *)
(***************************************************************************)
\* Tickers a caller passes: in the static table in some letter case, or not.
Tickers == { <<"B", "T", "C">>, <<"b", "t", "c">>, <<"E", "t", "h">>, <<"D", "O", "G", "E">>, <<"P", "E", "P", "E">>, <<"P", "e", "p", "e">>, <<"w", "i", "f">> }

\* The ids the price provider has a coin for: /coins/{id} answers 404 for
\* any other id.
KnownIds == {SYMBOL_TO_ID[t] : t \in DOMAIN SYMBOL_TO_ID}
            \cup { <<"p", "e", "p", "e">>, <<"d", "o", "g", "w", "i", "f", "c", "o", "i", "n">> }

\* Bodies of /search: matches in "coins" (a match carries its "id"; one
\* variant has a first match without it), or no "coins" at all.
Match(id) == JObj([id |-> JStr(id), symbol |-> JStr(upper(id))])
SearchBodies ==
    { JObj([coins |-> JArr(ms)]) :
        ms \in { << >>, <<Match(<<"p", "e", "p", "e">>)>>,
                 <<Match(<<"d", "o", "g", "w", "i", "f", "c", "o", "i", "n">>), Match(<<"p", "e", "p", "e">>)>>,
                 <<JObj([symbol |-> JStr(<<"P", "E", "P", "E">>)])>> } }
    \cup { EmptyDict, JObj([exchanges |-> JArr(<< >>)]) }
SearchResponses == Failures \cup {Ok(b) : b \in SearchBodies}

\* The fields get_current_price reads from "market_data": per quote currency
\* (a dict keyed by currency) or plain.
PerCurrencyFields ==
    {"current_price", "market_cap", "total_volume", "ath",
     "ath_change_percentage", "ath_date", "atl", "atl_change_percentage",
     "atl_date"}
PlainFields ==
    {"market_cap_rank", "price_change_24h", "price_change_percentage_24h",
     "price_change_percentage_7d", "price_change_percentage_30d",
     "circulating_supply", "total_supply", "max_supply"}
DateFields == {"ath_date", "atl_date"}
MarketDataFields == PerCurrencyFields \cup PlainFields

\* A "market_data" with every field present and set.
FullValue(f) == IF f \in DateFields THEN JStr(<<"2", "0", "2", "1", "-", "1", "1", "-", "1", "0", "T", "1", "4", ":", "2", "4", ":", "1", "1", ".", "8", "4", "9", "Z">>) ELSE JNum(1)
FullMarketData ==
    [f \in MarketDataFields |->
        IF f \in PerCurrencyFields THEN JObj([usd |-> FullValue(f)]) ELSE FullValue(f)]

\* "market_data" as the provider may send it: full, or with one field
\* missing, null, or (per currency) without "usd" or with a null "usd".
MarketDatas ==
    {FullMarketData}
    \cup {[g \in MarketDataFields \ {f} |-> FullMarketData[g]] : f \in MarketDataFields}
    \cup {[FullMarketData EXCEPT ![f] = JNull] : f \in MarketDataFields}
    \cup {[FullMarketData EXCEPT ![f] = JObj([eur |-> FullValue(f)])] : f \in PerCurrencyFields}
    \cup {[FullMarketData EXCEPT ![f] = JObj([usd |-> JNull])] : f \in PerCurrencyFields}
    \cup {[FullMarketData EXCEPT ![f] = JNum(0)] : f \in {"max_supply"}}

\* Bodies of /coins/{id}.
CoinBodies ==
    {JObj([name |-> JStr(<<"C", "o", "i", "n">>), market_data |-> JObj(md)]) : md \in MarketDatas}
    \cup { JObj([market_data |-> JObj(FullMarketData)]),
           JObj([name |-> JStr(<<"C", "o", "i", "n">>)]),
           JObj([name |-> JStr(<<"C", "o", "i", "n">>), market_data |-> JNull]),
           EmptyDict }
CoinResponses == Failures \cup {Ok(b) : b \in CoinBodies}

\* What /coins/{id} answers: the provider's response for a coin it knows,
\* 404 for an id it does not know.
CoinResponse(id, coin) == IF id \in KnownIds THEN coin ELSE HttpError

(***************************************************************************)
(* CoinGeckoUtils.get_current_price, get_market_data_summary.              *)
(***************************************************************************)
\* What a formatted text block says: its header or message, the symbol it
\* names, and the parts of it that depend on a branch of the code.
Text(text, symbol, detail) == [text |-> text, symbol |-> symbol, detail |-> detail]

\* The keys of the dict get_current_price returns.
PriceDataKeys == {"symbol", "name"} \cup MarketDataFields

\* market_data.get(f, {}).get(vs_currency, default): the dict it reads usd from
PerCurrency(market_data, f) == Get(market_data, f, EmptyDict)

DefaultOf(f) == IF f \in DateFields THEN JStr(<< >>) ELSE JNum(0)

\* get_current_price(symbol): search and coin are the provider's responses
\* to /search and to /coins/{id} (for an id it knows)
get_current_price(symbol, search, coin) ==
    Let(get_coin_id(symbol, search), LAMBDA cid :
        IF ~cid.r.ok THEN cid
        ELSE
        LET coin_id == cid.r.val
            data == cg_make_request(CoinResponse(coin_id, coin))
            reqs == cid.reqs \o <<Request("coingecko", "coingecko",
                                          "/coins/{id}", coin_id, 0)>>
        IN  IF ~Truthy(data) \/ ~HasKey(data, "market_data")
               THEN Outcome(Ret(EmptyDict), reqs)
            ELSE
            LET market_data == data.obj["market_data"]
            IN  IF ~IsDict(market_data)
                   THEN Outcome(Raise("AttributeError"), reqs)
                ELSE IF \E f \in PerCurrencyFields : ~IsDict(PerCurrency(market_data, f))
                   THEN Outcome(Raise("AttributeError"), reqs)
                ELSE Outcome(Ret(JObj(
                       [k \in PriceDataKeys |->
                          CASE k = "symbol" -> JStr(upper(symbol))
                            [] k = "name" -> Get(data, "name", JStr(<< >>))
                            [] k \in PerCurrencyFields ->
                                 Get(PerCurrency(market_data, k), "usd", DefaultOf(k))
                            [] OTHER -> Get(market_data, k, JNum(0))])), reqs))

\* The fields get_market_data_summary formats as numbers (",.2f", ",.0f",
\* "+.2f"): formatting None that way raises TypeError.
NumberFormatted ==
    {"current_price", "market_cap", "total_volume",
     "price_change_percentage_24h", "price_change_percentage_7d",
     "price_change_percentage_30d", "circulating_supply", "total_supply",
     "ath", "ath_change_percentage", "atl", "atl_change_percentage"}

\* get_market_data_summary(symbol)
get_market_data_summary(symbol, search, coin) ==
    Let(get_current_price(symbol, search, coin), LAMBDA got :
        IF ~got.r.ok THEN got
        ELSE
        LET price_data == got.r.val
        IN  IF ~Truthy(price_data)
               THEN Outcome(Ret(Text("Could not fetch market data for", symbol, << >>)),
                            got.reqs)
            ELSE IF Truthy(price_data.obj["max_supply"])
                    /\ ~IsNum(price_data.obj["max_supply"])
               THEN Outcome(Raise("ValueError"), got.reqs)
            ELSE IF \E f \in NumberFormatted : ~IsNum(price_data.obj[f])
               THEN Outcome(Raise("TypeError"), got.reqs)
            ELSE Outcome(Ret(Text("=== Market Data ===", price_data.obj["symbol"].str,
                    << IF Truthy(price_data.obj["max_supply"]) THEN "max" ELSE "Unlimited",
                       IF Truthy(price_data.obj["ath_date"]) THEN "ath_date" ELSE "N/A",
                       IF Truthy(price_data.obj["atl_date"]) THEN "atl_date" ELSE "N/A" >>)),
                    got.reqs))

(***************************************************************************)
(* CoinGeckoUtils.get_price_history.                                       *)
(***************************************************************************)
\* The horizons the candle endpoint accepts, in the order of the list.
valid_days == <<1, 7, 14, 30, 90, 180, 365>>

\* A slip: of the horizons equally near, the last of the list.
days_param_last(days) ==
    LET key(i) == Abs(valid_days[i] - days)
        last == CHOOSE i \in 1..Len(valid_days) :
                    /\ \A j \in 1..Len(valid_days) : key(i) <= key(j)
                    /\ \A j \in (i + 1)..Len(valid_days) : key(i) < key(j)
    IN  valid_days[last]

\* min(valid_days, key=lambda x: abs(x - days)): the first element of the
\* list whose key is the least
days_param(days) ==
    LET key(i) == Abs(valid_days[i] - days)
        first == CHOOSE i \in 1..Len(valid_days) :
                    /\ \A j \in 1..Len(valid_days) : key(i) <= key(j)
                    /\ \A j \in 1..(i - 1) : key(i) < key(j)
    IN  valid_days[first]

\* pd.to_datetime(ms, unit="ms"): a Timestamp, not the number it came from
Datetime(ms) == [ms |-> ms]

\* A cell without a value.
NaN == [nan |-> TRUE]

\* A DataFrame indexed by timestamp: its columns and its rows in order, a
\* row holding its index value and one cell per column.
Frame(columns, rows) == [columns |-> columns, rows |-> rows]
\* pd.DataFrame()
EmptyFrame == Frame(<< >>, << >>)
HasColumn(df, c) == \E i \in 1..Len(df.columns) : df.columns[i] = c

\* pd.DataFrame(data, columns=[...]) accepts a list of 5-element lists.
IsCandleList(data) ==
    IsList(data) /\ \A i \in 1..Len(data.arr) :
                       IsList(data.arr[i]) /\ Len(data.arr[i].arr) = 5

\* pd.DataFrame(data, columns=["timestamp", "open", "high", "low", "close"]),
\* the timestamp converted and made the index
ohlc_frame(data) ==
    Frame(<<"open", "high", "low", "close">>,
          [i \in 1..Len(data.arr) |->
              LET c == data.arr[i].arr
              IN  [timestamp |-> Datetime(c[1].num), open |-> c[2], high |-> c[3],
                   low |-> c[4], close |-> c[5]]])

\* pd.DataFrame(volume_data["total_volumes"], columns=["timestamp", "volume"]),
\* the timestamp converted and made the index: its rows
volume_rows(points) ==
    [i \in 1..Len(points.arr) |->
        [timestamp |-> Datetime(points.arr[i].arr[1].num),
         volume |-> points.arr[i].arr[2]]]

\* df.join(volume_df, how="left") on the index: every left row in order, once
\* per right row with its index value, and once with NaN when there is none
RECURSIVE left_join(_, _)
left_join(rows, right) ==
    IF rows = << >> THEN << >>
    ELSE LET row == Head(rows)
             ms == SelectSeq(right, LAMBDA r : r.timestamp = row.timestamp)
         IN  (IF ms = << >>
                 THEN << [volume |-> NaN] @@ row >>
                 ELSE [i \in 1..Len(ms) |-> [volume |-> ms[i].volume] @@ row])
             \o left_join(Tail(rows), right)

\* The volume merge of get_price_history: the join when the volume request
\* brought "total_volumes" (join refuses a column both frames have), else
\* df["volume"] = 0
merge_volume(df, volume_data) ==
    IF Truthy(volume_data) /\ HasKey(volume_data, "total_volumes")
       THEN IF HasColumn(df, "volume")
               THEN Raise("ValueError")
               ELSE Ret(Frame(Append(df.columns, "volume"),
                              left_join(df.rows,
                                        volume_rows(volume_data.obj["total_volumes"]))))
       ELSE Ret(Frame(IF HasColumn(df, "volume") THEN df.columns
                                                 ELSE Append(df.columns, "volume"),
                      [i \in 1..Len(df.rows) |-> [volume |-> JNum(0)] @@ df.rows[i]]))

\* get_price_history(symbol, days): search, ohlc and chart are the provider's
\* responses to /search, /coins/{id}/ohlc and /coins/{id}/market_chart (for
\* an id it knows)
get_price_history(symbol, days, search, ohlc, chart) ==
    Let(get_coin_id(symbol, search), LAMBDA cid :
        IF ~cid.r.ok THEN cid
        ELSE
        LET coin_id == cid.r.val
            data == cg_make_request(CoinResponse(coin_id, ohlc))
            reqs1 == cid.reqs \o <<Request("coingecko", "coingecko",
                                           "/coins/{id}/ohlc", coin_id,
                                           days_param(days))>>
        IN  IF ~Truthy(data) THEN Outcome(Ret(EmptyFrame), reqs1)
            ELSE IF ~IsCandleList(data) THEN Outcome(Raise("ValueError"), reqs1)
            ELSE
            LET volume_data == cg_make_request(CoinResponse(coin_id, chart))
                reqs2 == reqs1 \o <<Request("coingecko", "coingecko",
                                            "/coins/{id}/market_chart", coin_id,
                                            Min(days, 365))>>
            IN  Outcome(merge_volume(ohlc_frame(data), volume_data), reqs2))

(***************************************************************************)
(* The price provider's candles and volumes, and the history fetches.      *)
(***************************************************************************)
\* The largest horizon asked for.
MaxDays == 400

\* A candle [timestamp, open, high, low, close] of the period that starts at t.
Candle(t) == JArr(<<JNum(t), JNum(10 * t + 1), JNum(10 * t + 3), JNum(10 * t),
                    JNum(10 * t + 2)>>)

\* Bodies of /coins/{id}/ohlc: candles with ascending distinct timestamps
\* (none, some), or something that is no list of candles.
CandleLists ==
    { << >>, <<Candle(1)>>, <<Candle(1), Candle(2)>>, <<Candle(2), Candle(3)>>,
      <<Candle(1), Candle(3)>>, <<Candle(1), Candle(2), Candle(3)>> }
OhlcBodies ==
    {JArr(cs) : cs \in CandleLists}
    \cup { EmptyDict, JObj([error |-> JStr(<<"l", "i", "m", "i", "t">>)]),
           JArr(<<JArr(<<JNum(1), JNum(11), JNum(13), JNum(10)>>)>>) }
OhlcResponses == Failures \cup {Ok(b) : b \in OhlcBodies}

\* Bodies of /coins/{id}/market_chart: volume points [timestamp, volume] in
\* "total_volumes", their timestamps the candles' or others, once or twice;
\* or no "total_volumes".
VolumePoints == {JArr(<<JNum(t), JNum(v)>>) : t \in 1..3, v \in {5, 7}}
VolumePointLists ==
    {<< >>} \cup {<<p>> : p \in VolumePoints}
            \cup {<<p, q>> : p \in VolumePoints, q \in VolumePoints}
ChartBodies ==
    {JObj([prices |-> JArr(<< >>), total_volumes |-> JArr(ps)]) : ps \in VolumePointLists}
    \cup { EmptyDict, JObj([prices |-> JArr(<< >>)]) }
ChartResponses == Failures \cup {Ok(b) : b \in ChartBodies}

\* The provider in good health.
HealthySearch == Ok(JObj([coins |-> JArr(<<Match(<<"d", "o", "g", "w", "i", "f", "c", "o", "i", "n">>)>>)]))
HealthyOhlc == Ok(JArr(<<Candle(1), Candle(2)>>))
HealthyChart ==
    Ok(JObj([prices |-> JArr(<< >>),
             total_volumes |-> JArr(<<JArr(<<JNum(1), JNum(5)>>),
                                      JArr(<<JNum(2), JNum(7)>>)>>)]))

\* The history fetches made: every horizon with the provider in good health,
\* and one horizon with every answer of the provider.
HistoryCalls ==
    {[symbol |-> <<"B", "T", "C">>, days |-> d, search |-> HealthySearch,
      ohlc |-> HealthyOhlc, chart |-> HealthyChart] : d \in 1..MaxDays}
    \cup
    {[symbol |-> s, days |-> 5, search |-> q, ohlc |-> o, chart |-> c] :
        s \in {<<"b", "t", "c">>, <<"w", "i", "f">>}, q \in {HealthySearch, TransportError},
        o \in OhlcResponses, c \in ChartResponses}

(***************************************************************************)
(* CoinGeckoUtils: trending coins, fear & greed index, global market.      *)
(***************************************************************************)
\* get_trending_coins(limit): trending is the response to /search/trending
get_trending_coins(limit, trending) ==
    LET data == cg_make_request(trending)
        reqs == <<Request("coingecko", "coingecko", "/search/trending", << >>, 0)>>
    IN  IF ~Truthy(data) \/ ~HasKey(data, "coins")
           THEN Outcome(Ret(JArr(<< >>)), reqs)
        ELSE IF ~IsList(data.obj["coins"])
           THEN Outcome(Raise("TypeError"), reqs)
        ELSE
        LET items == Prefix(data.obj["coins"].arr, limit)
        IN  IF \E i \in 1..Len(items) :
                   ~IsDict(items[i]) \/ ~IsDict(Get(items[i], "item", EmptyDict))
               THEN Outcome(Raise("AttributeError"), reqs)
            ELSE Outcome(Ret(JArr(
                   [i \in 1..Len(items) |->
                      LET coin == Get(items[i], "item", EmptyDict)
                      IN  JObj([symbol |-> Get(coin, "symbol", JStr(<< >>)),
                                name |-> Get(coin, "name", JStr(<< >>)),
                                market_cap_rank |-> Get(coin, "market_cap_rank", JNum(0)),
                                price_btc |-> Get(coin, "price_btc", JNum(0))])])), reqs)

\* The dict get_fear_greed_index returns.
FearGreed(value, classification, timestamp, time_until_update) ==
    JObj([value |-> value, value_classification |-> classification,
          timestamp |-> timestamp, time_until_update |-> time_until_update])
NeutralFearGreedZero == FearGreed(JNum(0), JStr(<<"N", "e", "u", "t", "r", "a", "l">>), JStr(<< >>), JStr(<< >>))
NeutralFearGreed == FearGreed(JNum(50), JStr(<<"N", "e", "u", "t", "r", "a", "l">>), JStr(<< >>), JStr(<< >>))

\* get_fear_greed_index(): fng is the response of api.alternative.me/fng/,
\* asked without a rate-limit step; whatever is raised on the way is caught
get_fear_greed_index(fng) ==
    LET reqs == <<Request("coingecko", "", "/fng/", << >>, 0)>>
        data == fng.body
    IN  IF fng.status # "ok" THEN Outcome(Ret(NeutralFearGreed), reqs)
        ELSE IF ~Truthy(data) \/ ~IsDict(data) \/ ~HasKey(data, "data")
           THEN Outcome(Ret(NeutralFearGreed), reqs)
        ELSE IF ~IsList(data.obj["data"]) \/ ~Truthy(data.obj["data"])
           THEN Outcome(Ret(NeutralFearGreed), reqs)
        ELSE
        LET latest == data.obj["data"].arr[1]
        IN  IF ~IsDict(latest) THEN Outcome(Ret(NeutralFearGreed), reqs)
            ELSE
            LET value == py_int(Get(latest, "value", JNum(50)))
            IN  IF ~value.ok THEN Outcome(Ret(NeutralFearGreed), reqs)
                ELSE Outcome(Ret(FearGreed(value.val,
                        Get(latest, "value_classification", JStr(<<"N", "e", "u", "t", "r", "a", "l">>)),
                        Get(latest, "timestamp", JStr(<< >>)),
                        Get(latest, "time_until_update", JStr(<< >>)))), reqs)

\* The fields of "data" that get_global_market_data reads a currency or a
\* coin from.
GlobalDictFields == {"total_market_cap", "total_volume", "market_cap_percentage"}

\* get_global_market_data(): global is the response to /global
get_global_market_data(global) ==
    LET data == cg_make_request(global)
        reqs == <<Request("coingecko", "coingecko", "/global", << >>, 0)>>
    IN  IF ~Truthy(data) \/ ~HasKey(data, "data")
           THEN Outcome(Ret(EmptyDict), reqs)
        ELSE
        LET global_data == data.obj["data"]
        IN  IF ~IsDict(global_data) THEN Outcome(Raise("AttributeError"), reqs)
            ELSE IF \E f \in GlobalDictFields : ~IsDict(Get(global_data, f, EmptyDict))
               THEN Outcome(Raise("AttributeError"), reqs)
            ELSE Outcome(Ret(JObj(
               [active_cryptocurrencies |-> Get(global_data, "active_cryptocurrencies", JNum(0)),
                markets |-> Get(global_data, "markets", JNum(0)),
                total_market_cap_usd |->
                    Get(Get(global_data, "total_market_cap", EmptyDict), "usd", JNum(0)),
                total_volume_usd |->
                    Get(Get(global_data, "total_volume", EmptyDict), "usd", JNum(0)),
                market_cap_change_percentage_24h |->
                    Get(global_data, "market_cap_change_percentage_24h_usd", JNum(0)),
                btc_dominance |->
                    Get(Get(global_data, "market_cap_percentage", EmptyDict), "btc", JNum(0)),
                eth_dominance |->
                    Get(Get(global_data, "market_cap_percentage", EmptyDict), "eth", JNum(0))])),
               reqs)

\* The fields get_global_market_summary formats as numbers, in the order of
\* the text.
GlobalFormatted ==
    <<"total_market_cap_usd", "market_cap_change_percentage_24h", "total_volume_usd",
      "btc_dominance", "eth_dominance", "active_cryptocurrencies", "markets">>

\* get_global_market_summary()
get_global_market_summary(global, fng) ==
    Let(get_global_market_data(global), LAMBDA g :
        IF ~g.r.ok THEN g
        ELSE
        LET f == get_fear_greed_index(fng)
            reqs == g.reqs \o f.reqs
            global_data == g.r.val
        IN  IF ~Truthy(global_data)
               THEN Outcome(Ret(Text("Could not fetch global market data", << >>, << >>)),
                            reqs)
            ELSE
            LET err == FirstError([i \in 1..Len(GlobalFormatted) |->
                                      fmt_error(global_data.obj[GlobalFormatted[i]])])
                fear_greed == f.r.val
                shown(field) == global_data.obj[field].num
            IN  IF err # "" THEN Outcome(Raise(err), reqs)
                ELSE Outcome(Ret(Text("=== Global Crypto Market Overview ===", << >>,
                       << "Total Market Cap: $" \o fmt_grouped(shown("total_market_cap_usd")),
                          "24h Market Cap Change: "
                              \o fmt_signed_2f(shown("market_cap_change_percentage_24h")) \o "%",
                          "Total 24h Volume: $" \o fmt_grouped(shown("total_volume_usd")),
                          "Bitcoin: " \o fmt_2f(shown("btc_dominance")) \o "%",
                          "Ethereum: " \o fmt_2f(shown("eth_dominance")) \o "%",
                          "Active Cryptocurrencies: "
                              \o fmt_grouped(shown("active_cryptocurrencies")),
                          "Active Markets: " \o fmt_grouped(shown("markets")),
                          "Fear & Greed Index: " \o py_str(fear_greed.obj["value"])
                              \o "/100 ("
                              \o py_str(fear_greed.obj["value_classification"]) \o ")" >>)),
                       reqs))

(***************************************************************************)
(* OnChainUtils: Bitcoin.                                                  *)
(***************************************************************************)
\* OnChainUtils._make_request after the rate-limit step: the JSON body, or {}
\* when requests raised (transport, status, JSON)
oc_make_request(resp) == IF resp.status = "ok" THEN resp.body ELSE EmptyDict

\* The keys of the dict get_bitcoin_network_stats returns whose value is
\* taken from the payload as it is.
StatsCopied ==
    {"market_price_usd", "hash_rate", "difficulty", "n_blocks_total",
     "minutes_between_blocks", "estimated_transaction_volume_usd", "blocks_size",
     "miners_revenue_usd", "timestamp"}
StatsKeys == StatsCopied \cup {"total_btc_sent", "n_transactions", "totalbc"}

\* get_bitcoin_network_stats(): stats is the response of blockchain.info/stats
get_bitcoin_network_stats(stats) ==
    LET data == oc_make_request(stats)
        reqs == <<Request("onchain", "blockchain.com", "/stats", << >>, 0)>>
    IN  IF ~Truthy(data) THEN Outcome(Ret(EmptyDict), reqs)
        ELSE IF ~IsDict(data) THEN Outcome(Raise("AttributeError"), reqs)
        ELSE
        LET err == FirstError(<<arith_error(Get(data, "total_btc_sent", JNum(0))),
                                arith_error(Get(data, "totalbc", JNum(0)))>>)
        IN  IF err # "" THEN Outcome(Raise(err), reqs)
            ELSE Outcome(Ret(JObj(
                   [k \in StatsKeys |->
                      CASE k = "total_btc_sent" ->
                             JNum(Get(data, "total_btc_sent", JNum(0)).num \div SatoshiPerBtc)
                        [] k = "totalbc" ->
                             JNum(Get(data, "totalbc", JNum(0)).num \div SatoshiPerBtc)
                        [] k = "n_transactions" -> Get(data, "n_tx", JNum(0))
                        [] OTHER -> Get(data, k, JNum(0))])), reqs)

\* get_bitcoin_mempool_info(): mempool is the response of
\* blockchain.info/q/unconfirmedcount, its body the text of the response; it
\* is asked without a rate-limit step and without a status check, and
\* whatever is raised is caught
get_bitcoin_mempool_info(mempool) ==
    LET reqs == <<Request("onchain", "", "/q/unconfirmedcount", << >>, 0)>>
        count == IF mempool.status = "ok" THEN py_int(mempool.body)
                                          ELSE Raise("RequestException")
    IN  IF ~count.ok THEN Outcome(Ret(EmptyDict), reqs)
        ELSE Outcome(Ret(JObj(
               [unconfirmed_transactions |-> count.val,
                mempool_size_mb |-> JNum(count.val.num \div 2000),
                congestion_level |->
                    IF count.val.num > 10000 THEN JStr(<<"H", "i", "g", "h">>)
                    ELSE IF count.val.num < 2000 THEN JStr(<<"L", "o", "w">>)
                    ELSE JStr(<<"M", "e", "d", "i", "u", "m">>)])), reqs)

\* tx.get("out", [{}])[0].get("value", 0) / 1e8 if tx.get("out") else 0
value_btc(tx) ==
    IF ~IsDict(tx) THEN Raise("AttributeError")
    ELSE IF ~Truthy(Get(tx, "out", JNull)) THEN Ret(JNum(0))
    ELSE IF ~IsList(tx.obj["out"]) THEN Raise("TypeError")
    ELSE IF ~IsDict(tx.obj["out"].arr[1]) THEN Raise("AttributeError")
    ELSE LET value == Get(tx.obj["out"].arr[1], "value", JNum(0))
         IN  IF arith_error(value) # "" THEN Raise(arith_error(value))
             ELSE Ret(JNum(value.num \div SatoshiPerBtc))

\* The loop of get_bitcoin_large_transactions over txs: found is the list so
\* far and reqs the requests so far; every large transaction asks the
\* network stats for the price
RECURSIVE scan_large_txs(_, _, _, _, _)
scan_large_txs(txs, min_value_btc, stats, found, reqs) ==
    IF txs = << >> THEN Outcome(Ret(JArr(found)), reqs)
    ELSE
    Let(<<Head(txs), value_btc(Head(txs)), found, reqs>>, LAMBDA at :
    LET tx == at[1]
        v == at[2]
    IN  IF ~v.ok THEN Outcome(v, at[4])
        ELSE IF v.val.num < min_value_btc
           THEN scan_large_txs(Tail(txs), min_value_btc, stats, at[3], at[4])
        ELSE
        Let(get_bitcoin_network_stats(stats), LAMBDA ns :
        LET reqs2 == at[4] \o ns.reqs
        IN  IF ~ns.r.ok THEN Outcome(ns.r, reqs2)
            ELSE
            LET price == Get(ns.r.val, "market_price_usd", JNum(0))
                err == FirstError(<<arith_error(price),
                                    arith_error(Get(tx, "time", JNum(0)))>>)
            IN  IF err # "" THEN Outcome(Raise(err), reqs2)
                ELSE scan_large_txs(Tail(txs), min_value_btc, stats,
                        Append(at[3], JObj([hash |-> Get(tx, "hash", JStr(<< >>)),
                                            value_btc |-> v.val,
                                            value_usd |-> JNum(v.val.num * price.num),
                                            time |-> Get(tx, "time", JNum(0)),
                                            size |-> Get(tx, "size", JNum(0))])),
                        reqs2)))

\* get_bitcoin_large_transactions(min_value_btc): txs is the response of
\* blockchain.info/unconfirmed-transactions
get_bitcoin_large_transactions(min_value_btc, txs, stats) ==
    LET data == oc_make_request(txs)
        reqs == <<Request("onchain", "blockchain.com", "/unconfirmed-transactions",
                          << >>, 0)>>
    IN  IF ~Truthy(data) \/ ~HasKey(data, "txs") THEN Outcome(Ret(JArr(<< >>)), reqs)
        ELSE IF ~IsList(data.obj["txs"]) THEN Outcome(Raise("TypeError"), reqs)
        ELSE scan_large_txs(Prefix(data.obj["txs"].arr, 20), min_value_btc, stats,
                            << >>, reqs)

\* The network stats get_bitcoin_onchain_summary formats as numbers, in the
\* order of the text.
BitcoinFormatted ==
    <<"hash_rate", "difficulty", "minutes_between_blocks", "totalbc",
      "n_transactions", "estimated_transaction_volume_usd", "miners_revenue_usd">>

\* get_bitcoin_onchain_summary()
get_bitcoin_onchain_summary(stats, mempool, txs) ==
    Let(get_bitcoin_network_stats(stats), LAMBDA ns :
        IF ~ns.r.ok THEN ns
        ELSE
        Let(get_bitcoin_mempool_info(mempool), LAMBDA mp :
        Let(get_bitcoin_large_transactions(50, txs, stats), LAMBDA lt :
        LET reqs == ns.reqs \o mp.reqs \o lt.reqs
            network_stats == ns.r.val
        IN  IF ~lt.r.ok THEN Outcome(lt.r, reqs)
            ELSE IF ~Truthy(network_stats)
               THEN Outcome(Ret(Text("Could not fetch Bitcoin on-chain data", << >>, << >>)),
                            reqs)
            ELSE
            LET err == FirstError(
                          [i \in 1..Len(BitcoinFormatted) |->
                              fmt_error(network_stats.obj[BitcoinFormatted[i]])]
                          \o <<fmt_error(Get(mp.r.val, "unconfirmed_transactions",
                                             JStr(<<"N", "/", "A">>)))>>)
            IN  IF err # "" THEN Outcome(Raise(err), reqs)
                ELSE Outcome(Ret(Text("=== Bitcoin On-Chain Metrics ===", << >>,
                        << IF Truthy(lt.r.val) THEN "large transactions"
                                               ELSE "No large transactions" >>)), reqs))))

(***************************************************************************)
(* OnChainUtils: Ethereum, and the generic summary.                        *)
(***************************************************************************)
\* What the Etherscan and CryptoCompare operations return without their key.
KeyRequiredAsFailure(text) == EmptyDict
KeyRequired(text) == JObj([error |-> JStr(text)])

\* The gas tiers get_ethereum_gas_stats converts with int() and float(), in
\* the order of the dict.
GasConverted == <<"SafeGasPrice", "ProposeGasPrice", "FastGasPrice", "suggestBaseFee">>

\* get_ethereum_gas_stats(): gas is the response of the gas oracle
get_ethereum_gas_stats(etherscan_key, gas) ==
    IF ~etherscan_key
       THEN Outcome(Ret(KeyRequired(<<"E", "t", "h", "e", "r", "s", "c", "a", "n", " ", "A", "P", "I", " ", "k", "e", "y", " ", "r", "e", "q", "u", "i", "r", "e", "d">>)), << >>)
    ELSE
    LET data == oc_make_request(gas)
        reqs == <<Request("onchain", "etherscan", "gasoracle", << >>, 0)>>
    IN  IF ~Truthy(data) THEN Outcome(Ret(EmptyDict), reqs)
        ELSE IF ~IsDict(data) THEN Outcome(Raise("AttributeError"), reqs)
        ELSE IF Get(data, "status", JNull) # JStr(<<"1">>) THEN Outcome(Ret(EmptyDict), reqs)
        ELSE
        LET oracle == Get(data, "result", EmptyDict)
        IN  IF ~IsDict(oracle) THEN Outcome(Raise("AttributeError"), reqs)
            ELSE
            LET conv == [i \in 1..Len(GasConverted) |->
                            py_int(Get(oracle, GasConverted[i], JNum(0)))]
                err == FirstError([i \in 1..Len(conv) |->
                                      IF conv[i].ok THEN "" ELSE conv[i].exc])
            IN  IF err # "" THEN Outcome(Raise(err), reqs)
                ELSE Outcome(Ret(JObj(
                       [safe_gas_price |-> conv[1].val,
                        propose_gas_price |-> conv[2].val,
                        fast_gas_price |-> conv[3].val,
                        suggested_base_fee |-> conv[4].val,
                        gas_used_ratio |-> Get(oracle, "gasUsedRatio", JStr(<< >>)),
                        network_congestion |->
                            IF conv[3].val.num > 50 THEN JStr(<<"H", "i", "g", "h">>)
                            ELSE IF conv[3].val.num < 20 THEN JStr(<<"L", "o", "w">>)
                            ELSE JStr(<<"M", "e", "d", "i", "u", "m">>)])), reqs)

\* get_ethereum_supply_stats(): supply and supply2 are the responses to
\* ethsupply and ethsupply2
get_ethereum_supply_stats(etherscan_key, supply, supply2) ==
    IF ~etherscan_key
       THEN Outcome(Ret(KeyRequired(<<"E", "t", "h", "e", "r", "s", "c", "a", "n", " ", "A", "P", "I", " ", "k", "e", "y", " ", "r", "e", "q", "u", "i", "r", "e", "d">>)), << >>)
    ELSE
    LET data == oc_make_request(supply)
        reqs1 == <<Request("onchain", "etherscan", "ethsupply", << >>, 0)>>
    IN  IF ~Truthy(data) THEN Outcome(Ret(EmptyDict), reqs1)
        ELSE IF ~IsDict(data) THEN Outcome(Raise("AttributeError"), reqs1)
        ELSE IF Get(data, "status", JNull) # JStr(<<"1">>) THEN Outcome(Ret(EmptyDict), reqs1)
        ELSE
        LET total == py_int(Get(data, "result", JNum(0)))
            data2 == oc_make_request(supply2)
            reqs2 == reqs1 \o <<Request("onchain", "etherscan", "ethsupply2", << >>, 0)>>
        IN  IF ~total.ok THEN Outcome(total, reqs1)
            ELSE IF ~IsDict(data2) THEN Outcome(Raise("AttributeError"), reqs2)
            ELSE Outcome(Ret(JObj(
                   [total_supply_eth |-> JNum(total.val.num \div WeiPerEth),
                    eth2_staking |->
                        IF Get(data2, "status", JNull) = JStr(<<"1">>)
                           THEN Get(data2, "result", EmptyDict)
                           ELSE EmptyDict])), reqs2)

\* The gas statistics get_ethereum_onchain_summary puts in its text, in the
\* order of the text.
GasShown ==
    <<"safe_gas_price", "propose_gas_price", "fast_gas_price", "suggested_base_fee",
      "network_congestion">>

\* get_ethereum_onchain_summary()
get_ethereum_onchain_summary(etherscan_key, gas, supply, supply2) ==
    Let(get_ethereum_gas_stats(etherscan_key, gas), LAMBDA gs :
        IF ~gs.r.ok THEN gs
        ELSE
        Let(get_ethereum_supply_stats(etherscan_key, supply, supply2), LAMBDA ss :
        LET reqs == gs.reqs \o ss.reqs
            gas_stats == gs.r.val
        IN  IF ~ss.r.ok THEN Outcome(ss.r, reqs)
            ELSE IF HasKey(gas_stats, "error")
               THEN Outcome(Ret(Text("Etherscan API key required for Ethereum on-chain data",
                                     << >>, << >>)), reqs)
            ELSE
            LET err == FirstError(
                          [i \in 1..Len(GasShown) |->
                              IF HasKey(gas_stats, GasShown[i]) THEN "" ELSE "KeyError"]
                          \o <<fmt_error(Get(ss.r.val, "total_supply_eth", JNum(0)))>>)
            IN  IF err # "" THEN Outcome(Raise(err), reqs)
                ELSE Outcome(Ret(Text("=== Ethereum On-Chain Metrics ===", << >>, << >>)),
                             reqs)))

\* get_on_chain_summary(symbol): cc_onchain is the response of CryptoCompare's
\* blockchain/latest; whatever is raised after the key check is caught
get_on_chain_summary(cryptocompare_key, symbol, cc_onchain) ==
    IF ~cryptocompare_key
       THEN Outcome(Ret(KeyRequired(<<"C", "r", "y", "p", "t", "o", "C", "o", "m", "p", "a", "r", "e", " ", "A", "P", "I", " ", "k", "e", "y", " ", "r", "e", "q", "u", "i", "r", "e", "d">>)), << >>)
    ELSE
    LET reqs == <<Request("onchain", "cryptocompare", "blockchain/latest",
                          upper(symbol), 0)>>
        data == cc_onchain.body
    IN  IF cc_onchain.status # "ok" \/ ~IsDict(data) THEN Outcome(Ret(EmptyDict), reqs)
        ELSE IF Get(data, "Response", JNull) = JStr(<<"S", "u", "c", "c", "e", "s", "s">>) /\ HasKey(data, "Data")
           THEN Outcome(Ret(data.obj["Data"]), reqs)
        ELSE Outcome(Ret(EmptyDict), reqs)

\* _get_cryptocompare_coin_id(symbol): mappings.get(symbol.upper(), 0), as
\* the request parameter carries it
get_cryptocompare_coin_id(symbol) ==
    LET mappings == (<<"B", "T", "C">> :> <<"1", "1", "8", "2">>) @@ (<<"E", "T", "H">> :> <<"7", "6", "0", "5">>)
                    @@ (<<"S", "O", "L">> :> <<"6", "9", "9", "7", "8", "5">>) @@ (<<"M", "A", "T", "I", "C">> :> <<"3", "2", "1", "9", "9", "2">>)
                    @@ (<<"A", "V", "A", "X">> :> <<"8", "9", "3", "3", "7", "3">>)
    IN  IF upper(symbol) \in DOMAIN mappings THEN mappings[upper(symbol)] ELSE <<"0">>

\* get_social_stats(symbol): cc_social is the response of CryptoCompare's
\* social/coin/latest; whatever is raised after the key check is caught
get_social_stats(cryptocompare_key, symbol, cc_social) ==
    IF ~cryptocompare_key
       THEN Outcome(Ret(KeyRequired(<<"C", "r", "y", "p", "t", "o", "C", "o", "m", "p", "a", "r", "e", " ", "A", "P", "I", " ", "k", "e", "y", " ", "r", "e", "q", "u", "i", "r", "e", "d">>)), << >>)
    ELSE
    LET reqs == <<Request("onchain", "cryptocompare", "social/coin/latest",
                          get_cryptocompare_coin_id(symbol), 0)>>
        data == cc_social.body
    IN  IF cc_social.status # "ok" \/ ~IsDict(data) THEN Outcome(Ret(EmptyDict), reqs)
        ELSE IF Get(data, "Response", JNull) = JStr(<<"S", "u", "c", "c", "e", "s", "s">>) /\ HasKey(data, "Data")
           THEN LET social_data == data.obj["Data"]
                IN  IF ~IsDict(social_data)
                       \/ ~IsDict(Get(social_data, "Reddit", EmptyDict))
                       \/ ~IsDict(Get(social_data, "Twitter", EmptyDict))
                       THEN Outcome(Ret(EmptyDict), reqs)
                    ELSE
                    LET reddit == Get(social_data, "Reddit", EmptyDict)
                        twitter == Get(social_data, "Twitter", EmptyDict)
                    IN  Outcome(Ret(JObj(
                          [reddit_subscribers |-> Get(reddit, "subscribers", JNum(0)),
                           reddit_active_users |-> Get(reddit, "active_users", JNum(0)),
                           reddit_posts_per_day |-> Get(reddit, "posts_per_day", JNum(0)),
                           twitter_followers |-> Get(twitter, "followers", JNum(0)),
                           twitter_statuses |-> Get(twitter, "statuses", JNum(0))])), reqs)
        ELSE Outcome(Ret(EmptyDict), reqs)

\* The social statistics get_general_onchain_summary formats as numbers.
SocialFormatted == <<"reddit_subscribers", "reddit_active_users", "twitter_followers">>

\* The summary of get_general_onchain_summary for a symbol other than BTC and ETH.
generic_onchain_summary(cryptocompare_key, symbol, cc_onchain, cc_social) ==
    Let(get_on_chain_summary(cryptocompare_key, symbol, cc_onchain), LAMBDA oc :
    Let(get_social_stats(cryptocompare_key, symbol, cc_social), LAMBDA so :
    LET reqs == oc.reqs \o so.reqs
        social_data == so.r.val
    IN  IF ~Truthy(oc.r.val) /\ ~Truthy(social_data)
           THEN Outcome(Ret(Text("Limited on-chain data available for", symbol, << >>)), reqs)
        ELSE IF ~Truthy(social_data)
           THEN Outcome(Ret(Text("On-Chain & Social Metrics", upper(symbol), << >>)), reqs)
        ELSE
        LET err == FirstError([i \in 1..Len(SocialFormatted) |->
                                  fmt_error(Get(social_data, SocialFormatted[i], JNum(0)))])
        IN  IF err # "" THEN Outcome(Raise(err), reqs)
            ELSE Outcome(Ret(Text("On-Chain & Social Metrics", upper(symbol),
                   << "Social Activity:",
                      "Reddit Subscribers: "
                          \o fmt_grouped(Get(social_data, "reddit_subscribers", JNum(0)).num),
                      "Reddit Active Users: "
                          \o fmt_grouped(Get(social_data, "reddit_active_users", JNum(0)).num),
                      "Twitter Followers: "
                          \o fmt_grouped(Get(social_data, "twitter_followers", JNum(0)).num)
                   >>)), reqs)))

(***************************************************************************)
(* CryptoNewsUtils.                                                        *)
(***************************************************************************)
\* CryptoNewsUtils._make_request after the rate-limit step: the JSON body, or
\* {} when requests raised (transport, status, JSON)
news_make_request(resp) == IF resp.status = "ok" THEN resp.body ELSE EmptyDict

\* No symbol given (symbol=None): "if symbol" is false for it.
NoSymbol == << >>

\* What building the article of one CryptoPanic item raises ("" is nothing).
cryptopanic_item_error(item) ==
    IF ~IsDict(item) THEN "AttributeError"
    ELSE FirstError(
           << IF IsDict(Get(item, "source", EmptyDict)) THEN "" ELSE "AttributeError",
              IF IsDict(Get(item, "votes", EmptyDict)) THEN "" ELSE "AttributeError",
              LET currencies == Get(item, "currencies", JArr(<< >>))
              IN  IF ~IsList(currencies) THEN "TypeError"
                  ELSE FirstError([i \in 1..Len(currencies.arr) |->
                           IF ~IsDict(currencies.arr[i]) THEN "TypeError"
                           ELSE IF ~HasKey(currencies.arr[i], "code") THEN "KeyError"
                           ELSE ""]) >>)

\* The article get_cryptopanic_news makes of one item.
cryptopanic_article(item) ==
    LET votes == Get(item, "votes", EmptyDict)
        currencies == Get(item, "currencies", JArr(<< >>)).arr
    IN  JObj([title |-> Get(item, "title", JStr(<< >>)),
              url |-> Get(item, "url", JStr(<< >>)),
              source |-> Get(Get(item, "source", EmptyDict), "title", JStr(<< >>)),
              published_at |-> Get(item, "published_at", JStr(<< >>)),
              domain |-> Get(item, "domain", JStr(<< >>)),
              votes |-> JObj([positive |-> Get(votes, "positive", JNum(0)),
                              negative |-> Get(votes, "negative", JNum(0)),
                              important |-> Get(votes, "important", JNum(0))]),
              kind |-> Get(item, "kind", JStr(<< >>)),
              currencies |-> JArr([i \in 1..Len(currencies) |->
                                      currencies[i].obj["code"]])])

\* get_cryptopanic_news(symbol, "hot", limit): cryptopanic is the response of
\* the posts endpoint
get_cryptopanic_news(cryptopanic_key, symbol, limit, cryptopanic) ==
    IF ~cryptopanic_key THEN Outcome(Ret(JArr(<< >>)), << >>)
    ELSE
    LET data == news_make_request(cryptopanic)
        reqs == <<Request("cryptonews", "cryptopanic", "/api/v1/posts/",
                          upper(symbol), 0)>>
    IN  IF ~Truthy(data) \/ ~HasKey(data, "results") THEN Outcome(Ret(JArr(<< >>)), reqs)
        ELSE IF ~IsList(data.obj["results"]) THEN Outcome(Raise("TypeError"), reqs)
        ELSE
        LET items == Prefix(data.obj["results"].arr, limit)
            err == FirstError([i \in 1..Len(items) |-> cryptopanic_item_error(items[i])])
        IN  IF err # "" THEN Outcome(Raise(err), reqs)
            ELSE Outcome(Ret(JArr([i \in 1..Len(items) |-> cryptopanic_article(items[i])])),
                         reqs)

\* The feed readers get_cointelegraph_news, get_decrypt_news,
\* get_coindesk_news, get_theblock_news, get_bitcoinmagazine_news: feed is
\* what feedparser.parse meets; whatever is raised is caught
get_feed_news_uncapped(source, tag, limit, feed) ==
    LET reqs == <<Request("cryptonews", tag, "rss", << >>, 0)>>
    IN  IF feed.status # "ok" \/ ~IsList(feed.body) THEN Outcome(Ret(JArr(<< >>)), reqs)
        ELSE Outcome(Ret(JArr(
              [i \in 1..Len(feed.body.arr) |->
                  JObj([title |-> Get(feed.body.arr[i], "title", JStr(<< >>)),
                        url |-> Get(feed.body.arr[i], "link", JStr(<< >>)),
                        source |-> JStr(source),
                        published_at |-> Get(feed.body.arr[i], "published", JStr(<< >>)),
                        summary |-> Get(feed.body.arr[i], "summary", JStr(<< >>))])])), reqs)
get_feed_news(source, tag, limit, feed) ==
    LET reqs == <<Request("cryptonews", tag, "rss", << >>, 0)>>
    IN  IF feed.status # "ok" \/ ~IsList(feed.body) THEN Outcome(Ret(JArr(<< >>)), reqs)
        ELSE
        LET entries == Prefix(feed.body.arr, limit)
        IN  Outcome(Ret(JArr(
              [i \in 1..Len(entries) |->
                  JObj([title |-> Get(entries[i], "title", JStr(<< >>)),
                        url |-> Get(entries[i], "link", JStr(<< >>)),
                        source |-> JStr(source),
                        published_at |-> Get(entries[i], "published", JStr(<< >>)),
                        summary |-> Get(entries[i], "summary", JStr(<< >>))])])), reqs)

\* The feeds every aggregation reads, and the one read for BTC.
Feeds ==
    << [source |-> <<"C", "o", "i", "n", "T", "e", "l", "e", "g", "r", "a", "p", "h">>, tag |-> "cointelegraph"],
       [source |-> <<"D", "e", "c", "r", "y", "p", "t">>, tag |-> "decrypt"],
       [source |-> <<"C", "o", "i", "n", "D", "e", "s", "k">>, tag |-> "coindesk"],
       [source |-> <<"T", "h", "e", " ", "B", "l", "o", "c", "k">>, tag |-> "theblock"] >>
BitcoinMagazine == [source |-> <<"B", "i", "t", "c", "o", "i", "n", " ", "M", "a", "g", "a", "z", "i", "n", "e">>, tag |-> "bitcoinmagazine"]

\* all_news.sort(key=lambda x: x.get("published_at", ""), reverse=True) for
\* keys that are all str: descending, articles with equal keys in the order
\* they had
published_key(article) == Get(article, "published_at", JStr(<< >>)).str
RECURSIVE sort_newest_first(_)
sort_newest_first(news) ==
    IF news = << >> THEN << >>
    ELSE
    Let(sort_newest_first(SubSeq(news, 1, Len(news) - 1)), LAMBDA front :
        LET x == news[Len(news)]
            older == {i \in 1..Len(front) :
                         StrLess(published_key(front[i]), published_key(x))}
            at == IF older = {} THEN Len(front) + 1
                  ELSE CHOOSE i \in older : \A j \in older : i <= j
        IN  SubSeq(front, 1, at - 1) \o <<x>> \o SubSeq(front, at, Len(front)))

\* get_all_crypto_news(symbol, hours, max_per_source): up holds the response
\* of every source
get_all_crypto_news(cryptopanic_key, symbol, hours, max_per_source, up) ==
    Let(get_cryptopanic_news(cryptopanic_key, symbol, max_per_source, up.cryptopanic),
        LAMBDA cp :
        IF ~cp.r.ok THEN cp
        ELSE
        LET read == Feeds \o (IF upper(symbol) = <<"B", "T", "C">> THEN <<BitcoinMagazine>>
                                                               ELSE << >>)
        IN  Let([i \in 1..Len(read) |->
                    get_feed_news(read[i].source, read[i].tag, max_per_source,
                                  up[read[i].tag])], LAMBDA got :
                LET Extend[i \in 0..Len(got)] ==
                        IF i = 0 THEN [news |-> cp.r.val.arr, reqs |-> cp.reqs]
                        ELSE [news |-> Extend[i - 1].news \o got[i].r.val.arr,
                              reqs |-> Extend[i - 1].reqs \o got[i].reqs]
                IN  Let(Extend[Len(got)], LAMBDA all :
                        Outcome(Ret(JArr(sort_newest_first(all.news))), all.reqs))))

\* What the lines of get_crypto_news_summary for one article raise.
news_line_error(article) ==
    LET published_at == Get(article, "published_at", JNull)
        votes == Get(article, "votes", JNull)
    IN  FirstError(
          << IF Truthy(published_at) /\ ~IsStr(published_at) /\ ~IsList(published_at)
                THEN "TypeError" ELSE "",
             IF Truthy(votes)
                /\ \E k \in {"important", "positive", "negative"} :
                       ~IsNum(Get(votes, k, JNum(0)))
                THEN "TypeError" ELSE "" >>)

\* get_crypto_news_summary(symbol, hours, max_articles)
get_crypto_news_summary(cryptopanic_key, symbol, hours, max_articles, up) ==
    Let(get_all_crypto_news(cryptopanic_key, symbol, hours, 5, up), LAMBDA got :
        IF ~got.r.ok THEN got
        ELSE IF ~Truthy(got.r.val)
           THEN Outcome(Ret(Text("No recent crypto news found in the last hours", << >>,
                                 << >>)), got.reqs)
        ELSE
        LET articles == Prefix(got.r.val.arr, max_articles)
            err == FirstError([i \in 1..Len(articles) |-> news_line_error(articles[i])])
        IN  IF err # "" THEN Outcome(Raise(err), got.reqs)
            ELSE Outcome(Ret(Text("=== Crypto News", upper(symbol), << >>)), got.reqs))

regulatory_keywords ==
    << <<"s", "e", "c">>, <<"r", "e", "g", "u", "l", "a", "t", "i", "o", "n">>, <<"r", "e", "g", "u", "l", "a", "t", "o", "r", "y">>, <<"b", "a", "n">>, <<"l", "e", "g", "a", "l">>, <<"l", "a", "w", "s", "u", "i", "t">>,
       <<"c", "o", "m", "p", "l", "i", "a", "n", "c", "e">>, <<"g", "o", "v", "e", "r", "n", "m", "e", "n", "t">>, <<"l", "e", "g", "i", "s", "l", "a", "t", "i", "o", "n">>, <<"p", "o", "l", "i", "c", "y">>, <<"e", "t", "f">>,
       <<"s", "e", "c", "u", "r", "i", "t", "i", "e", "s">>, <<"c", "f", "t", "c">>, <<"c", "o", "n", "g", "r", "e", "s", "s">>, <<"s", "e", "n", "a", "t", "e">>, <<"c", "o", "u", "r", "t">> >>

\* The keyword test without the lower() of the title and of the summary.
is_regulatory_cased(article) ==
    LET title_lower == Get(article, "title", JStr(<< >>)).str
        summary_lower == Get(article, "summary", JStr(<< >>)).str
    IN  \E k \in 1..Len(regulatory_keywords) :
            \/ Contains(title_lower, regulatory_keywords[k])
            \/ Contains(summary_lower, regulatory_keywords[k])

\* An article's title or summary has a regulatory keyword.
is_regulatory(article) ==
    LET title_lower == lower(Get(article, "title", JStr(<< >>)).str)
        summary_lower == lower(Get(article, "summary", JStr(<< >>)).str)
    IN  \E k \in 1..Len(regulatory_keywords) :
            \/ Contains(title_lower, regulatory_keywords[k])
            \/ Contains(summary_lower, regulatory_keywords[k])

\* get_regulatory_news(hours)
get_regulatory_news(cryptopanic_key, hours, up) ==
    Let(get_all_crypto_news(cryptopanic_key, NoSymbol, hours, 10, up), LAMBDA got :
        IF ~got.r.ok THEN got
        ELSE
        LET all_news == got.r.val.arr
        IN  IF \E i \in 1..Len(all_news) :
                   \/ ~IsStr(Get(all_news[i], "title", JStr(<< >>)))
                   \/ ~IsStr(Get(all_news[i], "summary", JStr(<< >>)))
               THEN Outcome(Raise("AttributeError"), got.reqs)
            ELSE Outcome(Ret(JArr(SelectSeq(all_news, is_regulatory))), got.reqs))

(***************************************************************************)
(* The other upstreams, as the clients meet them.                          *)
(***************************************************************************)
\* Bodies of /search/trending.
TrendingItem(symbol) ==
    JObj([item |-> JObj([symbol |-> JStr(symbol), name |-> JStr(lower(symbol)),
                         market_cap_rank |-> JNum(1), price_btc |-> JNum(1)])])
TrendingLists ==
    { << >>, <<TrendingItem(<<"P", "E", "P", "E">>)>>,
      <<TrendingItem(<<"P", "E", "P", "E">>), TrendingItem(<<"W", "I", "F">>), TrendingItem(<<"B", "O", "N", "K">>)>>,
      <<EmptyDict>>, <<JObj([item |-> JNull])>>,
      <<JObj([item |-> JObj([symbol |-> JStr(<<"P", "E", "P", "E">>), price_btc |-> JNull])])>> }
TrendingBodies ==
    {JObj([coins |-> JArr(l)]) : l \in TrendingLists}
    \cup { EmptyDict, JObj([coins |-> JNull]) }
TrendingResponses == Failures \cup {Ok(b) : b \in TrendingBodies}

\* Bodies of api.alternative.me/fng/.
FngEntry(value) ==
    JObj([value |-> value, value_classification |-> JStr(<<"F", "e", "a", "r">>),
          timestamp |-> JStr(<<"1", "7", "6", "2", "3", "0", "0", "8", "0", "0">>), time_until_update |-> JStr(<<"3", "6", "0", "0">>)])
FngBodies ==
    {JObj([name |-> JStr(<<"F", "e", "a", "r", " ", "a", "n", "d", " ", "G", "r", "e", "e", "d", " ", "I", "n", "d", "e", "x">>), data |-> JArr(<<e>>)]) :
        e \in { FngEntry(JStr(<<"2", "5">>)), FngEntry(JStr(<<"n", "/", "a">>)), FngEntry(JNull),
                JObj([value_classification |-> JStr(<<"F", "e", "a", "r">>)]), JNull }}
    \cup { JObj([data |-> JArr(<< >>)]), JObj([data |-> JNull]),
           JObj([name |-> JStr(<<"F", "e", "a", "r", " ", "a", "n", "d", " ", "G", "r", "e", "e", "d", " ", "I", "n", "d", "e", "x">>)]), EmptyDict }
FngResponses == Failures \cup {Ok(b) : b \in FngBodies}

\* Bodies of /global.
FullGlobal ==
    [active_cryptocurrencies |-> JNum(9000), markets |-> JNum(800),
     total_market_cap |-> JObj([usd |-> JNum(3000)]),
     total_volume |-> JObj([usd |-> JNum(100)]),
     market_cap_change_percentage_24h_usd |-> JNum(2),
     market_cap_percentage |-> JObj([btc |-> JNum(55), eth |-> JNum(12)])]
GlobalBodies ==
    {JObj([data |-> d]) :
        d \in { JObj(FullGlobal), JNull, JObj([markets |-> JNum(800)]),
                JObj([FullGlobal EXCEPT !["total_market_cap"] = JNull]),
                JObj([FullGlobal EXCEPT !["market_cap_percentage"] = JObj([btc |-> JNum(55)])]),
                JObj([FullGlobal EXCEPT !["active_cryptocurrencies"] = JNull]) }}
    \cup { EmptyDict, JObj([status |-> JStr(<<"e", "r", "r", "o", "r">>)]) }
GlobalResponses == Failures \cup {Ok(b) : b \in GlobalBodies}

\* Bodies of blockchain.info/stats (amounts of satoshi in the model's unit).
FullStats ==
    [market_price_usd |-> JNum(2), hash_rate |-> JNum(600), difficulty |-> JNum(90),
     total_btc_sent |-> JNum(70000), n_tx |-> JNum(400), n_blocks_total |-> JNum(870),
     minutes_between_blocks |-> JNum(10), totalbc |-> JNum(1900000),
     estimated_transaction_volume_usd |-> JNum(5000), blocks_size |-> JNum(150),
     miners_revenue_usd |-> JNum(40), timestamp |-> JNum(1762)]
StatsBodies ==
    { JObj(FullStats), EmptyDict, JObj([market_price_usd |-> JNum(2)]),
      JObj([FullStats EXCEPT !["hash_rate"] = JNull]),
      JObj([FullStats EXCEPT !["total_btc_sent"] = JNull]),
      JObj([FullStats EXCEPT !["market_price_usd"] = JNull]) }
StatsResponses == Failures \cup {Ok(b) : b \in StatsBodies}

\* Answers of blockchain.info/q/unconfirmedcount: a count as text, some other
\* text, or no answer.
MempoolResponses ==
    { Ok(JStr(<<"1", "5", "0", "0">>)), Ok(JStr(<<"5", "0", "0", "0">>)), Ok(JStr(<<"2", "0", "0", "0", "0">>)),
      Ok(JStr(<<"S", "e", "r", "v", "i", "c", "e", " ", "U", "n", "a", "v", "a", "i", "l", "a", "b", "l", "e">>)), TransportError }

\* Bodies of blockchain.info/unconfirmed-transactions.
Tx(hash, out) ==
    JObj([hash |-> JStr(hash), out |-> JArr(out), time |-> JNum(1762), size |-> JNum(250)])
SmallTx == Tx(<<"a", "1">>, <<JObj([value |-> JNum(100)])>>)
LargeTx == Tx(<<"b", "2">>, <<JObj([value |-> JNum(6000)]), JObj([value |-> JNum(100)])>>)
TxLists ==
    { << >>, <<SmallTx>>, <<LargeTx>>, <<SmallTx, LargeTx, LargeTx>>,
      <<JObj([hash |-> JStr(<<"c", "3">>)])>>, <<Tx(<<"c", "3">>, << >>)>>,
      <<Tx(<<"c", "3">>, <<EmptyDict>>)>>, <<Tx(<<"c", "3">>, <<JObj([value |-> JNull])>>)>>,
      <<JObj([hash |-> JStr(<<"b", "2">>), out |-> JArr(<<JObj([value |-> JNum(6000)])>>),
              time |-> JNull])>>,
      <<JNull>> }
TxsBodies ==
    {JObj([txs |-> JArr(l)]) : l \in TxLists} \cup { EmptyDict, JObj([txs |-> JNull]) }
TxsResponses == Failures \cup {Ok(b) : b \in TxsBodies}

\* Bodies of the Etherscan gas oracle.
FullGasOracle ==
    [SafeGasPrice |-> JStr(<<"1", "0">>), ProposeGasPrice |-> JStr(<<"1", "2">>),
     FastGasPrice |-> JStr(<<"6", "0">>), suggestBaseFee |-> JStr(<<"9">>),
     gasUsedRatio |-> JStr(<<"0", ".", "5", ",", "0", ".", "4">>)]
GasBodies ==
    {JObj([status |-> JStr(<<"1">>), message |-> JStr(<<"O", "K">>), result |-> r]) :
        r \in { JObj(FullGasOracle), EmptyDict, JNull,
                JObj([FullGasOracle EXCEPT !["SafeGasPrice"] = JStr(<< >>)]),
                JObj([FullGasOracle EXCEPT !["FastGasPrice"] = JNull]) }}
    \cup { JObj([status |-> JStr(<<"0">>), message |-> JStr(<<"N", "O", "T", "O", "K">>),
                 result |-> JStr(<<"M", "a", "x", " ", "r", "a", "t", "e", " ", "l", "i", "m", "i", "t", " ", "r", "e", "a", "c", "h", "e", "d">>)]),
           EmptyDict }
GasResponses == Failures \cup {Ok(b) : b \in GasBodies}

\* Bodies of Etherscan's ethsupply and ethsupply2 (Wei in the model's unit).
SupplyBodies ==
    { JObj([status |-> JStr(<<"1">>), result |-> JStr(<<"1", "2", "0", "0", "0">>)]),
      JObj([status |-> JStr(<<"1">>), result |-> JNull]),
      JObj([status |-> JStr(<<"1">>)]),
      JObj([status |-> JStr(<<"0">>), result |-> JStr(<<"M", "a", "x", " ", "r", "a", "t", "e", " ", "l", "i", "m", "i", "t", " ", "r", "e", "a", "c", "h", "e", "d">>)]),
      EmptyDict }
SupplyResponses == Failures \cup {Ok(b) : b \in SupplyBodies}
Supply2Bodies ==
    { JObj([status |-> JStr(<<"1">>), result |-> JObj([EthSupply |-> JStr(<<"1", "2", "0", "0", "0">>)])]),
      JObj([status |-> JStr(<<"0">>), result |-> JStr(<<"M", "a", "x", " ", "r", "a", "t", "e", " ", "l", "i", "m", "i", "t", " ", "r", "e", "a", "c", "h", "e", "d">>)]),
      EmptyDict }
Supply2Responses == Failures \cup {Ok(b) : b \in Supply2Bodies}

\* Bodies of CryptoCompare's blockchain/latest and social/coin/latest.
CcOnchainBodies ==
    { JObj([Response |-> JStr(<<"S", "u", "c", "c", "e", "s", "s">>),
            Data |-> JObj([symbol |-> JStr(<<"D", "O", "G", "E">>), active_addresses |-> JNum(70)])]),
      JObj([Response |-> JStr(<<"S", "u", "c", "c", "e", "s", "s">>), Data |-> EmptyDict]),
      JObj([Response |-> JStr(<<"S", "u", "c", "c", "e", "s", "s">>)]),
      JObj([Response |-> JStr(<<"E", "r", "r", "o", "r">>), Message |-> JStr(<<"n", "o", " ", "d", "a", "t", "a">>)]),
      JArr(<< >>) }
CcOnchainResponses == Failures \cup {Ok(b) : b \in CcOnchainBodies}
FullSocial ==
    [Reddit |-> JObj([subscribers |-> JNum(2000), active_users |-> JNum(30),
                      posts_per_day |-> JNum(4)]),
     Twitter |-> JObj([followers |-> JNum(5000), statuses |-> JNum(60)])]
CcSocialBodies ==
    {JObj([Response |-> JStr(<<"S", "u", "c", "c", "e", "s", "s">>), Data |-> d]) :
        d \in { JObj(FullSocial), EmptyDict, JNull,
                JObj([FullSocial EXCEPT !["Reddit"] = JNull]),
                JObj([FullSocial EXCEPT !["Reddit"] = JObj([subscribers |-> JNull])]),
                JObj([Twitter |-> JObj([followers |-> JNum(5000)])]) }}
    \cup { JObj([Response |-> JStr(<<"E", "r", "r", "o", "r">>), Message |-> JStr(<<"n", "o", " ", "d", "a", "t", "a">>)]),
           JArr(<< >>) }
CcSocialResponses == Failures \cup {Ok(b) : b \in CcSocialBodies}

\* Bodies of CryptoPanic's posts endpoint: items with their fields set,
\* missing, null or of another shape; "published_at" is a str where present.
FullPost ==
    [title |-> JStr(<<"S", "E", "C", " ", "s", "u", "e", "s", " ", "e", "x", "c", "h", "a", "n", "g", "e">>), url |-> JStr(<<"c", "p", ".", "i", "o", "/", "1">>),
     source |-> JObj([title |-> JStr(<<"C", "o", "i", "n", "D", "e", "s", "k">>)]),
     published_at |-> JStr(<<"2", "0", "2", "6", "-", "1", "1", "-", "0", "5", "T", "0", "9", ":", "0", "0", ":", "0", "0", "Z">>), domain |-> JStr(<<"c", "p", ".", "i", "o">>),
     votes |-> JObj([positive |-> JNum(3), negative |-> JNum(1), important |-> JNum(2)]),
     kind |-> JStr(<<"n", "e", "w", "s">>), currencies |-> JArr(<<JObj([code |-> JStr(<<"B", "T", "C">>)])>>)]
OtherPost ==
    [title |-> JStr(<<"M", "i", "n", "e", "r", "s", " ", "e", "x", "p", "a", "n", "d">>), url |-> JStr(<<"c", "p", ".", "i", "o", "/", "2">>),
     published_at |-> JStr(<<"2", "0", "2", "6", "-", "1", "1", "-", "0", "5", "T", "1", "1", ":", "0", "0", ":", "0", "0", "Z">>),
     votes |-> JObj([negative |-> JNum(4)])]
PostLists ==
    { << >>, <<JObj(FullPost)>>, <<JObj(FullPost), JObj(OtherPost)>>, <<EmptyDict>>,
      <<JNull>>,
      <<JObj([FullPost EXCEPT !["source"] = JNull])>>,
      <<JObj([FullPost EXCEPT !["votes"] = JNull])>>,
      <<JObj([FullPost EXCEPT !["currencies"] = JNull])>>,
      <<JObj([FullPost EXCEPT !["currencies"] = JArr(<<JObj([title |-> JStr(<<"B", "i", "t", "c", "o", "i", "n">>)])>>)])>>,
      <<JObj([FullPost EXCEPT !["votes"] = JObj([important |-> JNull])])>>,
      <<JObj([FullPost EXCEPT !["title"] = JNull])>> }
CryptopanicBodies ==
    {JObj([count |-> JNum(2), results |-> JArr(l)]) : l \in PostLists}
    \cup { EmptyDict, JObj([results |-> JNull]), JObj([info |-> JStr(<<"T", "o", "k", "e", "n", " ", "n", "o", "t", " ", "f", "o", "u", "n", "d">>)]) }
CryptopanicResponses == Failures \cup {Ok(b) : b \in CryptopanicBodies}

\* What feedparser.parse makes of a feed: its entries, or a failure.
Entry(title, published, summary) ==
    JObj([title |-> JStr(title), link |-> JStr(<<"f", "e", "e", "d", ".", "i", "o", "/", "1">>),
          published |-> JStr(published), summary |-> JStr(summary)])
EntryLists ==
    { << >>,
      <<Entry(<<"B", "i", "t", "c", "o", "i", "n", " ", "t", "o", "p", "s">>, <<"T", "h", "u", ",", " ", "0", "5", " ", "N", "o", "v", " ", "2", "0", "2", "6", " ", "1", "0", ":", "0", "0", ":", "0", "0">>, <<"P", "r", "i", "c", "e", " ", "u", "p">>)>>,
      <<Entry(<<"M", "a", "r", "k", "e", "t", "s", " ", "c", "a", "l", "m">>, <<"W", "e", "d", ",", " ", "0", "4", " ", "N", "o", "v", " ", "2", "0", "2", "6", " ", "0", "8", ":", "0", "0", ":", "0", "0">>, <<"S", "e", "n", "a", "t", "e", " ", "h", "e", "a", "r", "i", "n", "g">>),
        Entry(<<"N", "e", "w", " ", "E", "T", "F", " ", "f", "i", "l", "e", "d">>, <<"T", "h", "u", ",", " ", "0", "5", " ", "N", "o", "v", " ", "2", "0", "2", "6", " ", "1", "2", ":", "0", "0", ":", "0", "0">>, << >>)>>,
      <<JObj([title |-> JStr(<<"U", "n", "t", "i", "m", "e", "d">>)])>>,
      <<Entry(FullPost.title.str, <<"T", "h", "u", ",", " ", "0", "5", " ", "N", "o", "v", " ", "2", "0", "2", "6", " ", "0", "9", ":", "0", "0", ":", "0", "0">>, <<"L", "a", "w", "s", "u", "i", "t">>)>> }
FeedResponses == {TransportError, BadJson} \cup {Ok(JArr(l)) : l \in EntryLists}

\* Every upstream in good health.
HealthyFeed ==
    Ok(JArr(<<Entry(<<"B", "i", "t", "c", "o", "i", "n", " ", "t", "o", "p", "s">>, <<"T", "h", "u", ",", " ", "0", "5", " ", "N", "o", "v", " ", "2", "0", "2", "6", " ", "1", "0", ":", "0", "0", ":", "0", "0">>, <<"P", "r", "i", "c", "e", " ", "u", "p">>)>>))
Healthy ==
    [search |-> HealthySearch,
     coin |-> Ok(JObj([name |-> JStr(<<"C", "o", "i", "n">>), market_data |-> JObj(FullMarketData)])),
     ohlc |-> HealthyOhlc,
     chart |-> HealthyChart,
     trending |-> Ok(JObj([coins |-> JArr(<<TrendingItem(<<"P", "E", "P", "E">>)>>)])),
     global |-> Ok(JObj([data |-> JObj(FullGlobal)])),
     fng |-> Ok(JObj([data |-> JArr(<<FngEntry(JStr(<<"2", "5">>))>>)])),
     stats |-> Ok(JObj(FullStats)),
     mempool |-> Ok(JStr(<<"5", "0", "0", "0">>)),
     txs |-> Ok(JObj([txs |-> JArr(<<SmallTx, LargeTx>>)])),
     gas |-> Ok(JObj([status |-> JStr(<<"1">>), message |-> JStr(<<"O", "K">>),
                      result |-> JObj(FullGasOracle)])),
     supply |-> Ok(JObj([status |-> JStr(<<"1">>), result |-> JStr(<<"1", "2", "0", "0", "0">>)])),
     supply2 |-> Ok(JObj([status |-> JStr(<<"1">>),
                          result |-> JObj([EthSupply |-> JStr(<<"1", "2", "0", "0", "0">>)])])),
     cc_onchain |-> Ok(JObj([Response |-> JStr(<<"S", "u", "c", "c", "e", "s", "s">>),
                             Data |-> JObj([symbol |-> JStr(<<"D", "O", "G", "E">>),
                                            active_addresses |-> JNum(70)])])),
     cc_social |-> Ok(JObj([Response |-> JStr(<<"S", "u", "c", "c", "e", "s", "s">>), Data |-> JObj(FullSocial)])),
     cryptopanic |-> Ok(JObj([count |-> JNum(2), results |-> JArr(<<JObj(FullPost)>>)])),
     cointelegraph |-> HealthyFeed,
     decrypt |-> HealthyFeed,
     coindesk |-> HealthyFeed,
     theblock |-> HealthyFeed,
     bitcoinmagazine |-> HealthyFeed]

\* What each upstream may answer.
Answers ==
    [search |-> SearchResponses, coin |-> CoinResponses, ohlc |-> OhlcResponses,
     chart |-> {HealthyChart, TransportError, Ok(EmptyDict)},
     trending |-> TrendingResponses, global |-> GlobalResponses, fng |-> FngResponses,
     stats |-> StatsResponses, mempool |-> MempoolResponses, txs |-> TxsResponses,
     gas |-> GasResponses, supply |-> SupplyResponses, supply2 |-> Supply2Responses,
     cc_onchain |-> CcOnchainResponses, cc_social |-> CcSocialResponses,
     cryptopanic |-> CryptopanicResponses, cointelegraph |-> FeedResponses,
     decrypt |-> FeedResponses, coindesk |-> FeedResponses, theblock |-> FeedResponses,
     bitcoinmagazine |-> FeedResponses]

\* One upstream e answers a, which may be otherwise than in good health.
Deviations(endpoints) ==
    UNION {{[e |-> e, a |-> a] : a \in Answers[e]} : e \in endpoints}

\* The state of the upstreams a call is made in: all in good health but the
\* one that deviates.
World(dev) == [Healthy EXCEPT ![dev.e] = dev.a]

\* The upstreams of the operations.
PriceEndpoints == {"search", "coin", "ohlc", "chart"}
GlobalEndpoints == {"global", "fng"}
BitcoinEndpoints == {"stats", "mempool", "txs"}
EthereumEndpoints == {"gas", "supply", "supply2"}
ChainEndpoints ==
    BitcoinEndpoints \cup EthereumEndpoints \cup {"cc_onchain", "cc_social"}
NewsEndpoints ==
    {"cryptopanic", "cointelegraph", "decrypt", "coindesk", "theblock", "bitcoinmagazine"}

\* get_general_onchain_summary(symbol): up holds the response of every
\* upstream
get_general_onchain_summary(creds, symbol, up) ==
    IF upper(symbol) = <<"B", "T", "C">>
       THEN get_bitcoin_onchain_summary(up.stats, up.mempool, up.txs)
    ELSE IF upper(symbol) = <<"E", "T", "H">>
       THEN get_ethereum_onchain_summary(creds.etherscan, up.gas, up.supply, up.supply2)
    ELSE generic_onchain_summary(creds.cryptocompare, symbol, up.cc_onchain, up.cc_social)

(***************************************************************************)
(* crypto_interface: the tool functions.                                   *)
(***************************************************************************)
\* A slip: the body of a tool function without its handler.
try_only(out, text, symbol) == out

\* try: <body> except Exception as e: return f"<text> {symbol}: {str(e)}",
\* out being what the body does
try_except(out, text, symbol) ==
    Let(out, LAMBDA body :
        IF body.r.ok THEN body
        ELSE Outcome(Ret(Text(text, symbol, <<body.r.exc>>)), body.reqs))

\* The body of get_crypto_price_data.
price_data_body(symbol, days, up) ==
    Let(get_market_data_summary(symbol, up.search, up.coin), LAMBDA ms :
        IF ~ms.r.ok THEN ms
        ELSE
        Let(get_price_history(symbol, days, up.search, up.ohlc, up.chart), LAMBDA ph :
            LET reqs == ms.reqs \o ph.reqs
            IN  IF ~ph.r.ok THEN Outcome(ph.r, reqs)
                ELSE IF ph.r.val.rows = << >>
                   THEN Outcome(Ret(Text("Could not fetch price data for", symbol, << >>)),
                                reqs)
                ELSE Outcome(Ret(Text(ms.r.val.text, symbol,
                                      ms.r.val.detail \o <<"Price History">>)), reqs)))

get_crypto_price_data(symbol, days, up) ==
    try_except(price_data_body(symbol, days, up), "Error fetching price data for", symbol)

get_global_crypto_market(up) ==
    try_except(get_global_market_summary(up.global, up.fng),
               "Error fetching global market data", << >>)

get_crypto_fear_greed_index(up) ==
    try_except(LET fg == get_fear_greed_index(up.fng)
               IN  Outcome(Ret(Text("=== Crypto Fear & Greed Index ===", << >>, << >>)),
                           fg.reqs),
               "Error fetching Fear & Greed Index", << >>)

\* The body of get_trending_cryptocurrencies.
trending_body(limit, up) ==
    Let(get_trending_coins(limit, up.trending), LAMBDA tr :
        IF ~tr.r.ok THEN tr
        ELSE IF ~Truthy(tr.r.val)
           THEN Outcome(Ret(Text("No trending coins data available", << >>, << >>)), tr.reqs)
        ELSE
        LET err == FirstError([i \in 1..Len(tr.r.val.arr) |->
                                  fmt_error(tr.r.val.arr[i].obj["price_btc"])])
        IN  IF err # "" THEN Outcome(Raise(err), tr.reqs)
            ELSE Outcome(Ret(Text("=== Top Trending Cryptocurrencies ===", << >>, << >>)),
                         tr.reqs))

get_trending_cryptocurrencies(limit, up) ==
    try_except(trending_body(limit, up), "Error fetching trending coins", << >>)

get_bitcoin_onchain_metrics(up) ==
    try_except(get_bitcoin_onchain_summary(up.stats, up.mempool, up.txs),
               "Error fetching Bitcoin on-chain data", << >>)

get_ethereum_onchain_metrics(creds, up) ==
    try_except(get_ethereum_onchain_summary(creds.etherscan, up.gas, up.supply, up.supply2),
               "Error fetching Ethereum on-chain data", << >>)

get_onchain_metrics(creds, symbol, up) ==
    try_except(get_general_onchain_summary(creds, symbol, up),
               "Error fetching on-chain metrics for", symbol)

get_crypto_news(creds, symbol, hours, max_articles, up) ==
    try_except(get_crypto_news_summary(creds.cryptopanic, symbol, hours, max_articles, up),
               "Error fetching crypto news", << >>)

\* The body of crypto_interface.get_regulatory_news.
regulatory_body(creds, up) ==
    Let(get_regulatory_news(creds.cryptopanic, 168, up), LAMBDA rn :
        IF ~rn.r.ok THEN rn
        ELSE IF ~Truthy(rn.r.val)
           THEN Outcome(Ret(Text("No significant regulatory news in the past week",
                                 << >>, << >>)), rn.reqs)
        ELSE
        LET shown == Prefix(rn.r.val.arr, 10)
            err == FirstError([i \in 1..Len(shown) |->
                      LET published_at == Get(shown[i], "published_at", JNull)
                      IN  IF Truthy(published_at) /\ ~IsStr(published_at)
                             /\ ~IsList(published_at)
                             THEN "TypeError" ELSE ""])
        IN  IF err # "" THEN Outcome(Raise(err), rn.reqs)
            ELSE Outcome(Ret(Text("=== Recent Regulatory News (Last 7 Days) ===", << >>,
                                  << >>)), rn.reqs))

tool_get_regulatory_news(creds, up) ==
    try_except(regulatory_body(creds, up), "Error fetching regulatory news", << >>)

\* The body of get_crypto_full_analysis: the sections are texts, joined.
full_analysis_body(creds, symbol, days, up) ==
    Let(<<get_crypto_price_data(symbol, days, up),
          get_onchain_metrics(creds, symbol, up),
          get_crypto_news(creds, symbol, 48, 5, up),
          get_global_crypto_market(up)>>, LAMBDA sections :
        LET err == FirstError([i \in 1..Len(sections) |->
                                  IF ~sections[i].r.ok THEN sections[i].r.exc
                                  ELSE IF "text" \notin DOMAIN sections[i].r.val
                                     THEN "TypeError"
                                  ELSE ""])
            reqs == sections[1].reqs \o sections[2].reqs \o sections[3].reqs
                    \o sections[4].reqs
        IN  IF err # "" THEN Outcome(Raise(err), reqs)
            ELSE Outcome(Ret(Text("full analysis", symbol,
                                  [i \in 1..Len(sections) |-> sections[i].r.val.text])),
                         reqs))

get_crypto_full_analysis(creds, symbol, days, up) ==
    try_except(full_analysis_body(creds, symbol, days, up),
               "Error generating full analysis for", symbol)


\* The arguments the operations are called with.
Limits == {0, 1, 10}
ChainSymbols == { <<"B", "T", "C">>, <<"e", "t", "h">>, <<"D", "O", "G", "E">>, <<"s", "o", "l">> }
NewsSymbols == { NoSymbol, <<"B", "T", "C">>, <<"e", "t", "h">> }
ToolSymbols == { <<"B", "T", "C">>, <<"e", "t", "h">>, <<"D", "O", "G", "E">>, <<"w", "i", "f">> }
AllFeeds == Feeds \o <<BitcoinMagazine>>

\* The client operations and the tool functions.
ClientOps ==
    { "get_coin_id", "get_current_price", "get_market_data_summary", "get_price_history",
      "get_trending_coins", "get_fear_greed_index", "get_global_market_data",
      "get_global_market_summary", "get_bitcoin_network_stats",
      "get_bitcoin_mempool_info", "get_bitcoin_large_transactions",
      "get_ethereum_gas_stats", "get_ethereum_supply_stats", "get_on_chain_summary",
      "get_social_stats", "get_bitcoin_onchain_summary", "get_ethereum_onchain_summary",
      "get_general_onchain_summary", "get_cryptopanic_news", "get_feed_news",
      "get_all_crypto_news", "get_crypto_news_summary", "get_regulatory_news" }
CRYPTO_TOOLS ==
    { "crypto_interface.get_crypto_price_data",
      "crypto_interface.get_global_crypto_market",
      "crypto_interface.get_crypto_fear_greed_index",
      "crypto_interface.get_trending_cryptocurrencies",
      "crypto_interface.get_bitcoin_onchain_metrics",
      "crypto_interface.get_ethereum_onchain_metrics",
      "crypto_interface.get_onchain_metrics",
      "crypto_interface.get_crypto_news",
      "crypto_interface.get_regulatory_news",
      "crypto_interface.get_crypto_full_analysis" }












(***************************************************************************)
(* The client operations and the tool functions as steps: an operation is  *)
(* called with arguments, the upstreams answer its requests, it returns.   *)
(***************************************************************************)
NoCall == [op |-> "none"]
NoKeys == [etherscan |-> FALSE, cryptocompare |-> FALSE, cryptopanic |-> FALSE]

\* The clients are constructed once, with the credentials of the environment.
ApiInit ==
    /\ keys \in [etherscan : BOOLEAN, cryptocompare : BOOLEAN, cryptopanic : BOOLEAN]
    /\ call = NoCall
    /\ result = Ret(JNull)
    /\ requests = << >>

\* The clients are not used.
ApiIdle ==
    /\ keys = NoKeys
    /\ call = NoCall
    /\ result = Ret(JNull)
    /\ requests = << >>

\* What a step of an operation leaves alone.
notApi == <<rateVars, nodeVars>>

\* An operation is called when the one before it has returned (Idle); out is
\* what it does with these arguments and these answers of the upstreams.
Idle == call = NoCall

Returns(op, args, out) ==
    /\ call' = [op |-> op] @@ args
    /\ result' = out.r
    /\ requests' = out.reqs
    /\ UNCHANGED keys
    /\ UNCHANGED notApi

GetCoinId ==
    /\ Idle
    /\ \E symbol \in Tickers, search \in SearchResponses :
           Returns("get_coin_id", [symbol |-> symbol, search |-> search],
                   get_coin_id(symbol, search))

GetCurrentPrice ==
    /\ Idle
    /\ \E symbol \in Tickers, search \in SearchResponses, coin \in CoinResponses :
           Returns("get_current_price",
                   [symbol |-> symbol, search |-> search, coin |-> coin],
                   get_current_price(symbol, search, coin))

GetMarketDataSummary ==
    /\ Idle
    /\ \E symbol \in Tickers, search \in SearchResponses, coin \in CoinResponses :
           Returns("get_market_data_summary",
                   [symbol |-> symbol, search |-> search, coin |-> coin],
                   get_market_data_summary(symbol, search, coin))

GetPriceHistory ==
    /\ Idle
    /\ \E c \in HistoryCalls :
           Returns("get_price_history", c,
                   get_price_history(c.symbol, c.days, c.search, c.ohlc, c.chart))

\* The volume merge applied once more, to the series get_price_history
\* returned and the volume data it was merged with.
MergeVolumeAgain ==
    /\ call.op = "get_price_history"
    /\ result.ok
    /\ result.val # EmptyFrame
    /\ LET coin_id == get_coin_id(call.symbol, call.search).r.val
           volume_data == cg_make_request(CoinResponse(coin_id, call.chart))
       IN  /\ call' = [op |-> "merge_volume", df |-> result.val,
                       volume_data |-> volume_data]
           /\ result' = merge_volume(result.val, volume_data)
    /\ requests' = << >>
    /\ UNCHANGED keys
    /\ UNCHANGED notApi

\* ---- the other operations of CoinGeckoUtils ----
GetTrendingCoins ==
    /\ Idle
    /\ \E limit \in Limits, trending \in TrendingResponses :
           Returns("get_trending_coins", [limit |-> limit, trending |-> trending],
                   get_trending_coins(limit, trending))

GetFearGreedIndex ==
    /\ Idle
    /\ \E fng \in FngResponses :
           Returns("get_fear_greed_index", [fng |-> fng], get_fear_greed_index(fng))

GetGlobalMarketData ==
    /\ Idle
    /\ \E global \in GlobalResponses :
           Returns("get_global_market_data", [global |-> global],
                   get_global_market_data(global))

GetGlobalMarketSummary ==
    /\ Idle
    /\ \E global \in GlobalResponses, fng \in FngResponses :
           Returns("get_global_market_summary", [global |-> global, fng |-> fng],
                   get_global_market_summary(global, fng))

\* ---- the operations of OnChainUtils ----
GetBitcoinNetworkStats ==
    /\ Idle
    /\ \E stats \in StatsResponses :
           Returns("get_bitcoin_network_stats", [stats |-> stats],
                   get_bitcoin_network_stats(stats))

GetBitcoinMempoolInfo ==
    /\ Idle
    /\ \E mempool \in MempoolResponses :
           Returns("get_bitcoin_mempool_info", [mempool |-> mempool],
                   get_bitcoin_mempool_info(mempool))

GetBitcoinLargeTransactions ==
    /\ Idle
    /\ \E min_value_btc \in {50, 100}, txs \in TxsResponses, stats \in StatsResponses :
           Returns("get_bitcoin_large_transactions",
                   [min_value_btc |-> min_value_btc, txs |-> txs, stats |-> stats],
                   get_bitcoin_large_transactions(min_value_btc, txs, stats))

GetEthereumGasStats ==
    /\ Idle
    /\ \E gas \in GasResponses :
           Returns("get_ethereum_gas_stats", [gas |-> gas],
                   get_ethereum_gas_stats(keys.etherscan, gas))

GetEthereumSupplyStats ==
    /\ Idle
    /\ \E supply \in SupplyResponses, supply2 \in Supply2Responses :
           Returns("get_ethereum_supply_stats", [supply |-> supply, supply2 |-> supply2],
                   get_ethereum_supply_stats(keys.etherscan, supply, supply2))

GetOnChainSummary ==
    /\ Idle
    /\ \E symbol \in ChainSymbols, cc_onchain \in CcOnchainResponses :
           Returns("get_on_chain_summary", [symbol |-> symbol, cc_onchain |-> cc_onchain],
                   get_on_chain_summary(keys.cryptocompare, symbol, cc_onchain))

GetSocialStats ==
    /\ Idle
    /\ \E symbol \in ChainSymbols, cc_social \in CcSocialResponses :
           Returns("get_social_stats", [symbol |-> symbol, cc_social |-> cc_social],
                   get_social_stats(keys.cryptocompare, symbol, cc_social))

GetBitcoinOnchainSummary ==
    /\ Idle
    /\ \E dev \in Deviations(BitcoinEndpoints) :
           Returns("get_bitcoin_onchain_summary", [dev |-> dev],
                   get_bitcoin_onchain_summary(World(dev).stats, World(dev).mempool, World(dev).txs))

GetEthereumOnchainSummary ==
    /\ Idle
    /\ \E dev \in Deviations(EthereumEndpoints) :
           Returns("get_ethereum_onchain_summary", [dev |-> dev],
                   get_ethereum_onchain_summary(keys.etherscan, World(dev).gas, World(dev).supply,
                                                World(dev).supply2))

GetGeneralOnchainSummary ==
    /\ Idle
    /\ \E symbol \in ChainSymbols, dev \in Deviations(ChainEndpoints) :
           Returns("get_general_onchain_summary", [symbol |-> symbol, dev |-> dev],
                   get_general_onchain_summary(keys, symbol, World(dev)))

\* ---- the operations of CryptoNewsUtils ----
GetCryptopanicNews ==
    /\ Idle
    /\ \E symbol \in NewsSymbols, limit \in Limits, cryptopanic \in CryptopanicResponses :
           Returns("get_cryptopanic_news",
                   [symbol |-> symbol, limit |-> limit, cryptopanic |-> cryptopanic],
                   get_cryptopanic_news(keys.cryptopanic, symbol, limit, cryptopanic))

\* get_cointelegraph_news, get_decrypt_news, get_coindesk_news,
\* get_theblock_news, get_bitcoinmagazine_news
GetFeedNews ==
    /\ Idle
    /\ \E i \in 1..Len(AllFeeds), limit \in Limits, feed \in FeedResponses :
           Returns("get_feed_news",
                   [source |-> AllFeeds[i].source, limit |-> limit, feed |-> feed],
                   get_feed_news(AllFeeds[i].source, AllFeeds[i].tag, limit, feed))

GetAllCryptoNews ==
    /\ Idle
    /\ \E symbol \in NewsSymbols, max_per_source \in Limits, dev \in Deviations(NewsEndpoints) :
           Returns("get_all_crypto_news",
                   [symbol |-> symbol, hours |-> 24, max_per_source |-> max_per_source,
                    dev |-> dev],
                   get_all_crypto_news(keys.cryptopanic, symbol, 24, max_per_source, World(dev)))

GetCryptoNewsSummary ==
    /\ Idle
    /\ \E symbol \in NewsSymbols, max_articles \in Limits, dev \in Deviations(NewsEndpoints) :
           Returns("get_crypto_news_summary",
                   [symbol |-> symbol, hours |-> 24, max_articles |-> max_articles,
                    dev |-> dev],
                   get_crypto_news_summary(keys.cryptopanic, symbol, 24, max_articles, World(dev)))

GetRegulatoryNews ==
    /\ Idle
    /\ \E dev \in Deviations(NewsEndpoints) :
           Returns("get_regulatory_news", [hours |-> 168, dev |-> dev],
                   get_regulatory_news(keys.cryptopanic, 168, World(dev)))

\* ---- the tool functions of crypto_interface ----
ToolGetCryptoPriceData ==
    /\ Idle
    /\ \E symbol \in ToolSymbols, days \in {30, 90}, dev \in Deviations(PriceEndpoints) :
           Returns("crypto_interface.get_crypto_price_data",
                   [symbol |-> symbol, days |-> days, dev |-> dev],
                   get_crypto_price_data(symbol, days, World(dev)))

ToolGetGlobalCryptoMarket ==
    /\ Idle
    /\ \E dev \in Deviations(GlobalEndpoints) :
           Returns("crypto_interface.get_global_crypto_market", [dev |-> dev],
                   get_global_crypto_market(World(dev)))

ToolGetCryptoFearGreedIndex ==
    /\ Idle
    /\ \E dev \in Deviations({"fng"}) :
           Returns("crypto_interface.get_crypto_fear_greed_index", [dev |-> dev],
                   get_crypto_fear_greed_index(World(dev)))

ToolGetTrendingCryptocurrencies ==
    /\ Idle
    /\ \E limit \in Limits, dev \in Deviations({"trending"}) :
           Returns("crypto_interface.get_trending_cryptocurrencies",
                   [limit |-> limit, dev |-> dev],
                   get_trending_cryptocurrencies(limit, World(dev)))

ToolGetBitcoinOnchainMetrics ==
    /\ Idle
    /\ \E dev \in Deviations(BitcoinEndpoints) :
           Returns("crypto_interface.get_bitcoin_onchain_metrics", [dev |-> dev],
                   get_bitcoin_onchain_metrics(World(dev)))

ToolGetEthereumOnchainMetrics ==
    /\ Idle
    /\ \E dev \in Deviations(EthereumEndpoints) :
           Returns("crypto_interface.get_ethereum_onchain_metrics", [dev |-> dev],
                   get_ethereum_onchain_metrics(keys, World(dev)))

ToolGetOnchainMetrics ==
    /\ Idle
    /\ \E symbol \in ToolSymbols, dev \in Deviations(ChainEndpoints) :
           Returns("crypto_interface.get_onchain_metrics", [symbol |-> symbol, dev |-> dev],
                   get_onchain_metrics(keys, symbol, World(dev)))

ToolGetCryptoNews ==
    /\ Idle
    /\ \E symbol \in NewsSymbols, max_articles \in Limits, dev \in Deviations(NewsEndpoints) :
           Returns("crypto_interface.get_crypto_news",
                   [symbol |-> symbol, hours |-> 24, max_articles |-> max_articles,
                    dev |-> dev],
                   get_crypto_news(keys, symbol, 24, max_articles, World(dev)))

ToolGetRegulatoryNews ==
    /\ Idle
    /\ \E dev \in Deviations(NewsEndpoints) :
           Returns("crypto_interface.get_regulatory_news", [dev |-> dev],
                   tool_get_regulatory_news(keys, World(dev)))

ToolGetCryptoFullAnalysis ==
    /\ Idle
    /\ \E symbol \in ToolSymbols, dev \in Deviations(DOMAIN Answers) :
           Returns("crypto_interface.get_crypto_full_analysis",
                   [symbol |-> symbol, days |-> 30, dev |-> dev],
                   get_crypto_full_analysis(keys, symbol, 30, World(dev)))





\* The caller has taken the result.
Done ==
    /\ call # NoCall
    /\ call' = NoCall
    /\ result' = Ret(JNull)
    /\ requests' = << >>
    /\ UNCHANGED keys
    /\ UNCHANGED notApi

ApiNext ==
    \/ Done
    \/ GetCoinId
    \/ GetCurrentPrice
    \/ GetMarketDataSummary
    \/ GetPriceHistory
    \/ MergeVolumeAgain
    \/ GetTrendingCoins
    \/ GetFearGreedIndex
    \/ GetGlobalMarketData
    \/ GetGlobalMarketSummary
    \/ GetBitcoinNetworkStats
    \/ GetBitcoinMempoolInfo
    \/ GetBitcoinLargeTransactions
    \/ GetEthereumGasStats
    \/ GetEthereumSupplyStats
    \/ GetOnChainSummary
    \/ GetSocialStats
    \/ GetBitcoinOnchainSummary
    \/ GetEthereumOnchainSummary
    \/ GetGeneralOnchainSummary
    \/ GetCryptopanicNews
    \/ GetFeedNews
    \/ GetAllCryptoNews
    \/ GetCryptoNewsSummary
    \/ GetRegulatoryNews
    \/ ToolGetCryptoPriceData
    \/ ToolGetGlobalCryptoMarket
    \/ ToolGetCryptoFearGreedIndex
    \/ ToolGetTrendingCryptocurrencies
    \/ ToolGetBitcoinOnchainMetrics
    \/ ToolGetEthereumOnchainMetrics
    \/ ToolGetOnchainMetrics
    \/ ToolGetCryptoNews
    \/ ToolGetRegulatoryNews
    \/ ToolGetCryptoFullAnalysis


(***************************************************************************)
(* The analyst nodes: each binds the tools its role may use to the model,  *)
(* invokes it on the messages and returns its update of the graph state.   *)
(***************************************************************************)
\* The rounds of nodes a run is followed for.
MaxRounds == 2

Crypto == JStr(<<"c", "r", "y", "p", "t", "o">>)
Stock == JStr(<<"s", "t", "o", "c", "k">>)

\* The tools chosen by the symbol as it is written, without upper().
onchain_tools_cased(crypto_symbol) ==
    IF crypto_symbol = <<"B", "T", "C">>
       THEN <<"get_bitcoin_onchain_metrics", "get_crypto_price_data",
              "get_global_crypto_market">>
    ELSE IF crypto_symbol = <<"E", "T", "H">>
       THEN <<"get_ethereum_onchain_metrics", "get_crypto_price_data",
              "get_global_crypto_market">>
    ELSE <<"get_onchain_metrics", "get_crypto_price_data", "get_global_crypto_market">>

\* onchain_analyst_node: the tools for state["company_of_interest"]
onchain_tools(crypto_symbol) ==
    IF upper(crypto_symbol) = <<"B", "T", "C">>
       THEN <<"get_bitcoin_onchain_metrics", "get_crypto_price_data",
              "get_global_crypto_market">>
    ELSE IF upper(crypto_symbol) = <<"E", "T", "H">>
       THEN <<"get_ethereum_onchain_metrics", "get_crypto_price_data",
              "get_global_crypto_market">>
    ELSE <<"get_onchain_metrics", "get_crypto_price_data", "get_global_crypto_market">>

\* market_analyst_node: the tools for toolkit.config; cfg.asset_type is
\* config.get("asset_type"), None when the key is absent
market_tools(cfg) ==
    LET is_crypto == cfg.asset_type = Crypto
    IN  IF is_crypto
           THEN <<"get_crypto_price_data", "get_global_crypto_market",
                  "get_crypto_fear_greed_index">>
        ELSE IF cfg.online_tools
           THEN <<"get_YFin_data_online", "get_stockstats_indicators_report_online">>
        ELSE <<"get_YFin_data", "get_stockstats_indicators_report">>

\* news_analyst_node: the tools for toolkit.config
news_tools(cfg) ==
    LET is_crypto == cfg.asset_type = Crypto
    IN  IF is_crypto THEN <<"get_crypto_news", "get_regulatory_news">>
        ELSE IF cfg.online_tools THEN <<"get_global_news_openai", "get_google_news">>
        ELSE <<"get_finnhub_news", "get_reddit_news", "get_google_news">>

\* social_media_analyst_node: the tools for toolkit.config
social_tools(cfg) ==
    LET is_crypto == cfg.asset_type = Crypto
    IN  IF is_crypto THEN <<"get_trending_cryptocurrencies", "get_crypto_news">>
        ELSE IF cfg.online_tools THEN <<"get_stock_news_openai">>
        ELSE <<"get_reddit_stock_info">>

\* The end of every node with the model's response for result:
\* the update {"messages": [result], "<role>_report": report}.
\* The report taken from the response whether or not it requests operations.
node_update_always(field, response) ==
    [messages |-> <<response>>, report |-> [field |-> field, text |-> response.content]]
node_update(field, response) ==
    LET report == IF Len(response.tool_calls) = 0 THEN response.content ELSE ""
    IN  [messages |-> <<response>>, report |-> [field |-> field, text |-> report]]

onchain_analyst_node(st, cfg, response) == Ret(node_update("onchain_report", response))
market_analyst_node(st, cfg, response) == Ret(node_update("market_report", response))
news_analyst_node(st, cfg, response) == Ret(node_update("news_report", response))
social_media_analyst_node(st, cfg, response) == Ret(node_update("sentiment_report", response))

\* The graph takes a node's update into the state: the messages are appended
\* to those it holds, the report replaces the role's report.
apply_update(st, update) ==
    [st EXCEPT !.messages = @ \o update.messages,
               ![update.report.field] = update.report.text]

\* What a model answers when these tools are bound to it.
Contents == {"", "FINAL TRANSACTION PROPOSAL: **HOLD**"}
Responses(tools) ==
    {[content |-> c, tool_calls |-> t] : c \in Contents, t \in {<< >>, <<tools[1]>>}}

AssetTypes == {Crypto, Stock, JStr(<<"f", "o", "r", "e", "x">>), JNull}
Configs == [asset_type : AssetTypes, online_tools : BOOLEAN]
Companies == { <<"B", "T", "C">>, <<"e", "t", "h">>, <<"D", "O", "G", "E">> }
NoRound == [node |-> "none"]

\* A run starts with no message and no report.
NodeInit ==
    /\ config \in Configs
    /\ \E company \in Companies :
           state = [company_of_interest |-> company, messages |-> << >>,
                    market_report |-> "", onchain_report |-> "",
                    news_report |-> "", sentiment_report |-> ""]
    /\ round = NoRound

\* The analyst nodes are not run.
NodeIdle ==
    /\ config = [asset_type |-> Crypto, online_tools |-> TRUE]
    /\ state = [company_of_interest |-> <<"B", "T", "C">>, messages |-> << >>,
                market_report |-> "", onchain_report |-> "",
                news_report |-> "", sentiment_report |-> ""]
    /\ round = NoRound

\* A node runs: the model answers, the graph takes the node's update.
Runs(node, tools, response, out) ==
    /\ Len(state.messages) < MaxRounds
    /\ round' = [node |-> node, tools |-> tools, response |-> response, out |-> out]
    /\ state' = IF out.ok THEN apply_update(state, out.val) ELSE state
    /\ UNCHANGED <<config, rateVars, apiVars>>

OnchainAnalystNode ==
    LET tools == onchain_tools(state.company_of_interest)
    IN  \E response \in Responses(tools) :
            Runs("onchain", tools, response, onchain_analyst_node(state, config, response))

MarketAnalystNode ==
    LET tools == market_tools(config)
    IN  \E response \in Responses(tools) :
            Runs("market", tools, response, market_analyst_node(state, config, response))

NewsAnalystNode ==
    LET tools == news_tools(config)
    IN  \E response \in Responses(tools) :
            Runs("news", tools, response, news_analyst_node(state, config, response))

SocialMediaAnalystNode ==
    LET tools == social_tools(config)
    IN  \E response \in Responses(tools) :
            Runs("social", tools, response, social_media_analyst_node(state, config, response))

NodeNext ==
    \/ OnchainAnalystNode
    \/ MarketAnalystNode
    \/ NewsAnalystNode
    \/ SocialMediaAnalystNode

(***************************************************************************)
(* The specifications.                                                     *)
(***************************************************************************)
\* The rate limiter at work, the clients' operations not called.
InitRate == RateInit /\ ApiIdle /\ NodeIdle
\* The operations called one after the other, their requests not timed.
InitApi == ApiInit /\ RateInit /\ NodeIdle
\* The analyst nodes run one after the other, the clients not used.
InitNode == NodeInit /\ RateInit /\ ApiIdle

SpecRate == InitRate /\ [][RateNextSeq]_vars
SpecRateConc == InitRate /\ [][RateNextConc]_vars
SpecApi == InitApi /\ [][ApiNext]_vars
SpecRateOwn == InitRate /\ [][RateNextOwn]_vars
SpecNode == InitNode /\ [][NodeNext]_vars

(***************************************************************************)
(* Claims about the rate limiter.                                          *)
(***************************************************************************)
\* The minimum interval the specification states per client, in units of
\* 0.2 s: 1.2 s for the price client, 1.0 s for the on-chain and news clients.
StatedInterval(client) == IF client = "coingecko" THEN 6 ELSE 5

\* The request dispatched last reached the rate-limit step less than the
\* minimum interval after the recorded dispatch time of the one before it.
ArrivedEarly ==
    /\ dispatched # NoDispatch
    /\ dispatched.arrive - dispatched.prev < StatedInterval(dispatched.src[1])

\* C1: in a sequential run, a request that reaches the rate-limit step less
\* than the minimum interval after the recorded dispatch time of the previous
\* request with the same client and tag is dispatched no earlier than that
\* dispatch time plus the minimum interval (1.2 s for the price client, 1.0 s
\* for the on-chain and news clients).
C1_SequentialPacing ==
    ArrivedEarly =>
        dispatched.at >= dispatched.prev + StatedInterval(dispatched.src[1])

\* C1, its case: a second request to the price client arrived early, after a
\* real first request, and has been dispatched.
C1_Witness ==
    /\ ArrivedEarly
    /\ dispatched.src[1] = "coingecko"
    /\ dispatched.prev >= StartTime

\* C2: with concurrent callers on a shared client, any two dispatches with the
\* same tag are at least the minimum interval apart.  (The code has no lock:
\* two callers read the same last timestamp and both go on.)
C2_ConcurrentPacing ==
    (dispatched # NoDispatch /\ dispatched.before > 0) =>
        dispatched.at - dispatched.before >= StatedInterval(dispatched.src[1])

(***************************************************************************)
(* Claims about the price client.                                          *)
(***************************************************************************)
\* The matches a /search response carries (none when the search failed).
SearchMatches(search) ==
    IF search.status = "ok" /\ HasKey(search.body, "coins")
       THEN search.body.obj["coins"].arr
       ELSE << >>

\* The operation asked /coins/{id} for an id the provider does not know.
UnknownIdAsked ==
    \E i \in 1..Len(requests) :
        requests[i].endpoint = "/coins/{id}" /\ requests[i].id \notin KnownIds

\* C5: get_coin_id of a ticker whose upper-cased form is in the static table
\* returns the table entry and issues no request; of any other ticker it
\* issues exactly one request, a search.
C5_TableThenOneSearch ==
    call.op = "get_coin_id" =>
        IF upper(call.symbol) \in DOMAIN SYMBOL_TO_ID
           THEN result = Ret(SYMBOL_TO_ID[upper(call.symbol)]) /\ requests = << >>
           ELSE Len(requests) = 1 /\ requests[1].endpoint = "/search"

\* C5, its case: a ticker given in lower case that is in the table was
\* resolved.
C5_Witness ==
    /\ call.op = "get_coin_id"
    /\ call.symbol # upper(call.symbol)
    /\ upper(call.symbol) \in DOMAIN SYMBOL_TO_ID
    /\ result.ok

\* C6: on a table miss get_coin_id returns the id of the first match when the
\* search returns matches, and the lower-cased ticker when the search fails
\* or returns no match; and when the id asked for is unknown to the provider
\* get_current_price returns the empty snapshot and get_market_data_summary
\* the text 'Could not fetch market data for <symbol>', without raising.
C6_MissThenFirstMatchOrLower ==
    /\ (call.op = "get_coin_id" /\ upper(call.symbol) \notin DOMAIN SYMBOL_TO_ID) =>
          LET ms == SearchMatches(call.search)
          IN  IF ms # << >>
                 THEN HasKey(ms[1], "id") => result = Ret(ms[1].obj["id"].str)
                 ELSE result = Ret(lower(call.symbol))
    /\ (call.op = "get_current_price" /\ UnknownIdAsked) =>
          result = Ret(EmptyDict)
    /\ (call.op = "get_market_data_summary" /\ UnknownIdAsked) =>
          result = Ret(Text("Could not fetch market data for", call.symbol, << >>))

\* C6, its case: the search failed, the lower-cased ticker was asked for, the
\* provider did not know it, and the summary came back.
C6_Witness ==
    /\ call.op = "get_market_data_summary"
    /\ call.search \in Failures
    /\ UnknownIdAsked
    /\ result.ok

(***************************************************************************)
(* Claims about the history fetch.                                         *)
(***************************************************************************)
\* The candle requests of the operation called last.
CandleRequests ==
    {requests[i] : i \in {j \in 1..Len(requests) :
                              requests[j].endpoint = "/coins/{id}/ohlc"}}

\* C7: for every positive days the days parameter sent to the candle
\* endpoint is one of 1, 7, 14, 30, 90, 180, 365, no other of them is
\* strictly nearer to days, and of two equally near the smaller is sent.
C7_NearestHorizon ==
    call.op = "get_price_history" =>
        \A r \in CandleRequests :
            /\ r.days \in {1, 7, 14, 30, 90, 180, 365}
            /\ \A v \in {1, 7, 14, 30, 90, 180, 365} :
                  /\ Abs(v - call.days) >= Abs(r.days - call.days)
                  /\ Abs(v - call.days) = Abs(r.days - call.days) => r.days <= v

\* C7, its case: 22 days, as near to 14 as to 30, were asked for and the
\* candle request went out with 14.
C7_Witness ==
    /\ call.op = "get_price_history"
    /\ call.days = 22
    /\ \E r \in CandleRequests : r.days = 14

\* The candles the provider sent for the history fetch called last.
CandlesSent ==
    LET cid == get_coin_id(call.symbol, call.search)
        resp == CoinResponse(cid.r.val, call.ohlc)
    IN  IF cid.r.ok /\ resp.status = "ok" /\ IsCandleList(resp.body)
           THEN resp.body.arr
           ELSE << >>

\* C8: in every non-empty series the history fetch returns every row has a
\* volume that is a number: 0 for a candle without a volume point at its
\* timestamp, and 0 in every row when the volume request fails.
C8_VolumeNeverNull ==
    (call.op = "get_price_history" /\ result.ok) =>
        \A i \in 1..Len(result.val.rows) : IsNum(result.val.rows[i].volume)

\* C9: for any candle list with ascending distinct timestamps and any volume
\* point list the series returned has one row per candle, in the candles'
\* order, with the candle's open, high, low and close.
C9_OneRowPerCandle ==
    (call.op = "get_price_history" /\ result.ok) =>
        /\ Len(result.val.rows) = Len(CandlesSent)
        /\ \A i \in 1..Len(CandlesSent) :
              LET c == CandlesSent[i].arr
                  row == result.val.rows[i]
              IN  /\ row.timestamp = Datetime(c[1].num)
                  /\ row.open = c[2] /\ row.high = c[3]
                  /\ row.low = c[4] /\ row.close = c[5]

C3_ToolsReturnText ==
    call.op \in CRYPTO_TOOLS => (result.ok /\ "text" \in DOMAIN result.val)

\* C3, its case: the Ethereum tool was called with the Etherscan credential
\* set and a gas oracle that did not answer; the summary raised KeyError and
\* the tool returned the text that names it.
C3_Witness ==
    /\ call.op = "crypto_interface.get_ethereum_onchain_metrics"
    /\ keys.etherscan
    /\ call.dev.e = "gas"
    /\ call.dev.a \in Failures
    /\ result = Ret(Text("Error fetching Ethereum on-chain data", << >>, <<"KeyError">>))

\* C4: no operation of the three clients raises to its caller, whatever the
\* upstreams answer and whichever credentials are set.
C4_NoClientOpRaises ==
    call.op \in ClientOps => result.ok

\* The market aggregates the summary called last got from its sub-call.
AggregatesFetched == get_global_market_data(call.global).r

\* The aggregates sub-call succeeded: it returned the seven fields, each a
\* number.
AggregatesSucceeded ==
    /\ AggregatesFetched.ok
    /\ Truthy(AggregatesFetched.val)
    /\ \A i \in 1..Len(GlobalFormatted) : IsNum(AggregatesFetched.val.obj[GlobalFormatted[i]])

\* The sentiment index answered: a first entry of the data list whose value,
\* where it carries one, is an integer.
SentimentAnswered(fng) ==
    /\ fng.status = "ok"
    /\ IsDict(fng.body) /\ HasKey(fng.body, "data")
    /\ IsList(fng.body.obj["data"]) /\ Truthy(fng.body.obj["data"])
    /\ IsDict(fng.body.obj["data"].arr[1])
    /\ py_int(Get(fng.body.obj["data"].arr[1], "value", JNum(50))).ok

\* The lines of the global summary that show the market aggregates.
AggregateLines(g) ==
    << "Total Market Cap: $" \o fmt_grouped(g.obj["total_market_cap_usd"].num),
       "24h Market Cap Change: "
           \o fmt_signed_2f(g.obj["market_cap_change_percentage_24h"].num) \o "%",
       "Total 24h Volume: $" \o fmt_grouped(g.obj["total_volume_usd"].num),
       "Bitcoin: " \o fmt_2f(g.obj["btc_dominance"].num) \o "%",
       "Ethereum: " \o fmt_2f(g.obj["eth_dominance"].num) \o "%",
       "Active Cryptocurrencies: " \o fmt_grouped(g.obj["active_cryptocurrencies"].num),
       "Active Markets: " \o fmt_grouped(g.obj["markets"].num) >>

\* C11: when the market-aggregates sub-call succeeds and the sentiment
\* sub-call fails (transport error, HTTP error, malformed body, empty data
\* list, non-integer value), the global summary is produced, shows the
\* aggregates of the sub-call, and shows sentiment 50, 'Neutral'.
C11_SentimentFailureIsNeutral ==
    (/\ call.op = "get_global_market_summary"
     /\ AggregatesSucceeded
     /\ ~SentimentAnswered(call.fng)) =>
        /\ result.ok
        /\ result.val.text = "=== Global Crypto Market Overview ==="
        /\ result.val.detail =
              AggregateLines(AggregatesFetched.val)
              \o <<"Fear & Greed Index: 50/100 (Neutral)">>

\* C11, its case: /global answered in full, the sentiment index answered
\* with the value "n/a", and the summary shows the aggregates and 50, Neutral.
C11_Witness ==
    /\ call.op = "get_global_market_summary"
    /\ call.global = Ok(JObj([data |-> JObj(FullGlobal)]))
    /\ call.fng.status = "ok"
    /\ ~SentimentAnswered(call.fng)
    /\ result = Ret(Text("=== Global Crypto Market Overview ===", << >>,
                         << "Total Market Cap: $3,000",
                            "24h Market Cap Change: +2.00%",
                            "Total 24h Volume: $100",
                            "Bitcoin: 55.00%",
                            "Ethereum: 12.00%",
                            "Active Cryptocurrencies: 9,000",
                            "Active Markets: 800",
                            "Fear & Greed Index: 50/100 (Neutral)" >>))

\* The line of the global summary that shows the sentiment index the
\* sub-call returned for the answer fng.
SentimentLine(fng) ==
    LET fear_greed == get_fear_greed_index(fng).r.val
    IN  "Fear & Greed Index: " \o py_str(fear_greed.obj["value"]) \o "/100 ("
        \o py_str(fear_greed.obj["value_classification"]) \o ")"

\* C12: when the market-aggregates sub-call fails and the sentiment sub-call
\* succeeds, the global summary is still the overview, and it reports the
\* sentiment value and classification that were fetched.
C12_AggregatesFailureKeepsSentiment ==
    (/\ call.op = "get_global_market_summary"
     /\ AggregatesFetched.ok /\ ~Truthy(AggregatesFetched.val)
     /\ SentimentAnswered(call.fng)) =>
        /\ result.ok
        /\ result.val.text = "=== Global Crypto Market Overview ==="
        /\ \E i \in 1..Len(result.val.detail) :
              result.val.detail[i] = SentimentLine(call.fng)

\* The requests of the operation called last that carry the id 0, which
\* _get_cryptocompare_coin_id gives for a symbol it has no entry for.
PlaceholderIdRequests ==
    {i \in 1..Len(requests) :
        requests[i].endpoint = "social/coin/latest" /\ requests[i].id = <<"0">>}

\* C13: the on-chain summary of a symbol without an entry in the multi-chain
\* id table, with or without the CryptoCompare credential, returns, sends no
\* request with a placeholder id, and shows no metric values.
C13_UnmappedSymbolNoMapping ==
    (/\ call.op = "get_general_onchain_summary"
     /\ upper(call.symbol) \notin {<<"B", "T", "C">>, <<"E", "T", "H">>}
     /\ get_cryptocompare_coin_id(call.symbol) = <<"0">>) =>
        /\ result.ok
        /\ PlaceholderIdRequests = {}
        /\ result.val.detail = << >>

\* The Ethereum summary was fetched by the call made last: by the client
\* operation, by the router for ETH, or by one of the two tools.
EthereumFetch ==
    \/ call.op \in {"get_ethereum_onchain_summary",
                    "crypto_interface.get_ethereum_onchain_metrics"}
    \/ /\ call.op \in {"get_general_onchain_summary",
                        "crypto_interface.get_onchain_metrics"}
       /\ upper(call.symbol) = <<"E", "T", "H">>

\* The outcome that names the missing Etherscan key.
EtherscanUnavailable ==
    Ret(Text("Etherscan API key required for Ethereum on-chain data", << >>, << >>))

\* C14: without the Etherscan credential an Ethereum fetch issues no request
\* and returns the text naming the missing key; with the credential and a
\* failed upstream request the outcome is another one.
C14_NoKeyIsUnavailable ==
    EthereumFetch =>
        /\ ~keys.etherscan => (requests = << >> /\ result = EtherscanUnavailable)
        /\ (keys.etherscan /\ call.dev.e \in EthereumEndpoints
               /\ call.dev.a \in Failures) => result # EtherscanUnavailable

\* C14, its case: the Ethereum summary was called without the credential,
\* sent nothing and returned the text naming the key.
C14_Witness ==
    /\ call.op = "get_ethereum_onchain_summary"
    /\ ~keys.etherscan
    /\ requests = << >>
    /\ result = EtherscanUnavailable

\* The price fetch of the whale scan called last failed: the network stats
\* came back empty.
PriceFetchFailed ==
    LET ns == get_bitcoin_network_stats(call.stats).r
    IN  ns.ok /\ ~Truthy(ns.val)

\* C15: when the price fetch fails, every transaction the whale scan flags
\* keeps its value in BTC, at or above the threshold, and carries no fiat
\* value.
C15_WhaleFiatOmitted ==
    (/\ call.op = "get_bitcoin_large_transactions"
     /\ result.ok
     /\ PriceFetchFailed) =>
        \A i \in 1..Len(result.val.arr) :
            /\ result.val.arr[i].obj["value_btc"].num >= call.min_value_btc
            /\ "value_usd" \notin DOMAIN result.val.arr[i].obj

\* The trending endpoint answered the call made last with a list under
\* "coins".
TrendingAnswered ==
    /\ call.trending.status = "ok"
    /\ IsDict(call.trending.body) /\ HasKey(call.trending.body, "coins")
    /\ IsList(call.trending.body.obj["coins"])

\* The coins it listed, none when it did not answer.
TrendingListed ==
    IF TrendingAnswered THEN call.trending.body.obj["coins"].arr ELSE << >>

\* It listed coins: every item is an object whose "item", where present, is
\* an object.
TrendingWellFormed ==
    /\ TrendingAnswered
    /\ \A i \in 1..Len(TrendingListed) :
          /\ IsDict(TrendingListed[i])
          /\ IsDict(Get(TrendingListed[i], "item", EmptyDict))

\* C16: for every limit >= 0 and every upstream list of n coins the trending
\* result has min(limit, n) entries, the first min(limit, n) coins in
\* upstream order; it is empty when the upstream call fails.
C16_TrendingCapped ==
    call.op = "get_trending_coins" =>
        /\ call.trending \in Failures => result = Ret(JArr(<< >>))
        /\ TrendingWellFormed =>
              /\ result.ok
              /\ Len(result.val.arr) = Min(call.limit, Len(TrendingListed))
              /\ \A i \in 1..Len(result.val.arr) :
                    LET coin == Get(TrendingListed[i], "item", EmptyDict)
                        entry == result.val.arr[i].obj
                    IN  /\ entry.symbol = Get(coin, "symbol", JStr(<< >>))
                        /\ entry.name = Get(coin, "name", JStr(<< >>))
                        /\ entry.market_cap_rank = Get(coin, "market_cap_rank", JNum(0))
                        /\ entry.price_btc = Get(coin, "price_btc", JNum(0))

\* C16, its case: three coins were listed, one was asked for, and the result
\* is the first of them alone.
C16_Witness ==
    /\ call.op = "get_trending_coins"
    /\ call.limit = 1
    /\ Len(TrendingListed) = 3
    /\ result.ok
    /\ Len(result.val.arr) = 1
    /\ result.val.arr[1].obj.symbol = JStr(<<"P", "E", "P", "E">>)

\* The sources the aggregation called last queried: the four feeds, the
\* aggregator when its credential is set, Bitcoin Magazine for BTC.
SourcesQueried ==
    4 + (IF keys.cryptopanic THEN 1 ELSE 0)
      + (IF upper(call.symbol) = <<"B", "T", "C">> THEN 1 ELSE 0)

\* C17: get_all_crypto_news returns at most max_per_source articles for each
\* source it queried, whatever the sources answer.
C17_NewsSizeBound ==
    (call.op = "get_all_crypto_news" /\ result.ok) =>
        Len(result.val.arr) <= call.max_per_source * SourcesQueried

\* C17, its case: one article per source was asked for, a feed offered two,
\* and the aggregation returned one for each source queried.
C17_Witness ==
    /\ call.op = "get_all_crypto_news"
    /\ call.max_per_source = 1
    /\ call.dev.e = "decrypt"
    /\ call.dev.a.status = "ok"
    /\ Len(call.dev.a.body.arr) = 2
    /\ result.ok
    /\ Len(result.val.arr) = SourcesQueried

\* The month a three-letter name stands for, 0 for any other text.
MonthNames ==
    << <<"J", "a", "n">>, <<"F", "e", "b">>, <<"M", "a", "r">>, <<"A", "p", "r">>,
       <<"M", "a", "y">>, <<"J", "u", "n">>, <<"J", "u", "l">>, <<"A", "u", "g">>,
       <<"S", "e", "p">>, <<"O", "c", "t">>, <<"N", "o", "v">>, <<"D", "e", "c">> >>
MonthOf(name) ==
    IF \E m \in 1..12 : MonthNames[m] = name
       THEN CHOOSE m \in 1..12 : MonthNames[m] = name
       ELSE 0

\* s holds digits from position a to position b.
DigitsAt(s, a, b) == Len(s) >= b /\ \A i \in a..b : IsDigit(s[i])

\* A publication time reads as an ISO timestamp (2026-11-05T09:00:00Z) or as
\* an RFC-822 date (Thu, 05 Nov 2026 10:00:00).
IsIsoTime(s) ==
    /\ DigitsAt(s, 1, 4) /\ DigitsAt(s, 6, 7) /\ DigitsAt(s, 9, 10)
    /\ DigitsAt(s, 12, 13) /\ DigitsAt(s, 15, 16)
    /\ s[5] = "-" /\ s[8] = "-" /\ s[11] = "T" /\ s[14] = ":"
IsRfcTime(s) ==
    /\ DigitsAt(s, 6, 7) /\ DigitsAt(s, 13, 16) /\ DigitsAt(s, 18, 19)
    /\ DigitsAt(s, 21, 22)
    /\ s[4] = "," /\ MonthOf(SubSeq(s, 9, 11)) # 0 /\ s[20] = ":"
Parsable(s) == IsIsoTime(s) \/ IsRfcTime(s)

\* The minutes a year, month, day, hour and minute count up to.
Minutes(year, month, day, hour, minute) ==
    (((year * 12 + month) * 31 + day) * 24 + hour) * 60 + minute

\* The time a parsable publication time names.
ParsedTime(s) ==
    IF IsIsoTime(s)
       THEN Minutes(DecimalValue(SubSeq(s, 1, 4)), DecimalValue(SubSeq(s, 6, 7)),
                    DecimalValue(SubSeq(s, 9, 10)), DecimalValue(SubSeq(s, 12, 13)),
                    DecimalValue(SubSeq(s, 15, 16)))
       ELSE Minutes(DecimalValue(SubSeq(s, 13, 16)), MonthOf(SubSeq(s, 9, 11)),
                    DecimalValue(SubSeq(s, 6, 7)), DecimalValue(SubSeq(s, 18, 19)),
                    DecimalValue(SubSeq(s, 21, 22)))

\* C18: the articles get_all_crypto_news returns are in non-increasing order
\* of their parsed publication time, whichever format it is written in, and
\* the articles without a parsable time come after all the others.
C18_NewestFirstByParsedTime ==
    (call.op = "get_all_crypto_news" /\ result.ok) =>
        \A i, j \in 1..Len(result.val.arr) :
            i < j =>
                LET a == published_key(result.val.arr[i])
                    b == published_key(result.val.arr[j])
                IN  /\ Parsable(b) => Parsable(a)
                    /\ (Parsable(a) /\ Parsable(b)) => ParsedTime(a) >= ParsedTime(b)

\* The feeds the aggregation called last read that answered in good health.
HealthyFeedsRead ==
    {i \in 1..Len(AllFeeds) :
        /\ AllFeeds[i].tag # call.dev.e
        /\ AllFeeds[i] = BitcoinMagazine => upper(call.symbol) = <<"B", "T", "C">>}

\* The articles the aggregation called last owes to feed f.
ArticlesOf(f) ==
    get_feed_news(AllFeeds[f].source, AllFeeds[f].tag, call.max_per_source,
                  HealthyFeed).r.val.arr

\* C19: whatever one source of get_all_crypto_news answers (a failure, or a
\* payload of unexpected shape, the aggregator's items with null or malformed
\* source, votes or currencies among them), the aggregation returns, and the
\* articles of every other source are in what it returns.
C19_SourceFaultIsolated ==
    call.op = "get_all_crypto_news" =>
        /\ result.ok
        /\ \A f \in HealthyFeedsRead :
              \A i \in 1..Len(ArticlesOf(f)) :
                  \E j \in 1..Len(result.val.arr) : result.val.arr[j] = ArticlesOf(f)[i]

\* C20: the list get_all_crypto_news returns holds no two articles with the
\* same title and the same source, whatever the sources answer.
C20_NoDuplicateTitleSource ==
    (call.op = "get_all_crypto_news" /\ result.ok) =>
        \A i, j \in 1..Len(result.val.arr) :
            (/\ result.val.arr[i].obj.title = result.val.arr[j].obj.title
             /\ result.val.arr[i].obj.source = result.val.arr[j].obj.source) => i = j

\* The articles the aggregation hands to the regulatory filter called last.
Aggregated ==
    get_all_crypto_news(keys.cryptopanic, NoSymbol, call.hours, 10, World(call.dev)).r.val.arr

\* The title and the summary of an article, "" when it has none.
TitleOf(article) == Get(article, "title", JStr(<< >>)).str
SummaryOf(article) == Get(article, "summary", JStr(<< >>)).str

\* A keyword is in the title or in the summary, letter case set aside.
HasKeyword(article) ==
    \E k \in 1..Len(regulatory_keywords) :
        \/ Contains(lower(TitleOf(article)), regulatory_keywords[k])
        \/ Contains(lower(SummaryOf(article)), regulatory_keywords[k])

\* C21: what get_regulatory_news returns is the aggregated articles, in their
\* order, without those that have none of the 16 keywords in title or summary
\* (letter case set aside); an article with 'sec' in its title in any letter
\* case is in it, an article with no keyword is not.
C21_RegulatoryFilter ==
    (call.op = "get_regulatory_news" /\ result.ok) =>
        /\ Len(regulatory_keywords) = 16
        /\ result.val.arr = SelectSeq(Aggregated, HasKeyword)
        /\ \A i \in 1..Len(Aggregated) :
              /\ Contains(lower(TitleOf(Aggregated[i])), <<"s", "e", "c">>) =>
                     \E j \in 1..Len(result.val.arr) : result.val.arr[j] = Aggregated[i]
              /\ ~HasKeyword(Aggregated[i]) =>
                     \A j \in 1..Len(result.val.arr) : result.val.arr[j] # Aggregated[i]

\* The filter kept an article titled with 'SEC' in capitals and dropped others.
C21_Witness ==
    /\ call.op = "get_regulatory_news"
    /\ result.ok
    /\ \E j \in 1..Len(result.val.arr) :
          Contains(TitleOf(result.val.arr[j]), <<"S", "E", "C">>)
    /\ Len(result.val.arr) < Len(Aggregated)

\* The parsed publication times of the articles returned.
PublishedTimes ==
    {ParsedTime(Get(result.val.arr[i], "published_at", JStr(<< >>)).str) :
        i \in {j \in 1..Len(result.val.arr) :
                  /\ IsStr(Get(result.val.arr[j], "published_at", JStr(<< >>)))
                  /\ Parsable(Get(result.val.arr[j], "published_at", JStr(<< >>)).str)}}

\* C22: get_all_crypto_news(hours = h) returns only articles of the last h
\* hours.  No article is published after the call, so no two articles
\* returned are published more than h hours apart.
C22_WithinTimeWindow ==
    (call.op = "get_all_crypto_news" /\ result.ok) =>
        \A t, u \in PublishedTimes : t - u <= call.hours * 60

\* The on-chain operations of the toolkit.
OnchainOperations ==
    {"get_bitcoin_onchain_metrics", "get_ethereum_onchain_metrics", "get_onchain_metrics"}

\* The on-chain operation of a chain identity, letter case set aside.
OnchainOperationOf(symbol) ==
    IF upper(symbol) = <<"B", "T", "C">> THEN "get_bitcoin_onchain_metrics"
    ELSE IF upper(symbol) = <<"E", "T", "H">> THEN "get_ethereum_onchain_metrics"
    ELSE "get_onchain_metrics"

\* C23: the on-chain analyst is given one on-chain operation, Bitcoin's for
\* BTC, Ethereum's for ETH (in any letter case) and the generic one for every
\* other symbol, followed by the price-data and the global-market operation;
\* the list is decided by the symbol alone, so it is the same in every round.
C23_OnchainToolsBySymbol ==
    round.node = "onchain" =>
        /\ round.tools = <<OnchainOperationOf(state.company_of_interest),
                           "get_crypto_price_data", "get_global_crypto_market">>
        /\ Cardinality({i \in 1..Len(round.tools) : round.tools[i] \in OnchainOperations}) = 1

\* The on-chain analyst ran for 'eth' and was given Ethereum's operation.
C23_Witness ==
    /\ round.node = "onchain"
    /\ state.company_of_interest = <<"e", "t", "h">>
    /\ round.tools[1] = "get_ethereum_onchain_metrics"
    /\ Len(state.messages) = MaxRounds

\* The report field of each analyst role.
ReportField(node) ==
    CASE node = "market" -> "market_report"
      [] node = "onchain" -> "onchain_report"
      [] node = "news" -> "news_report"
      [] node = "social" -> "sentiment_report"

\* C24: in every round of every analyst role the response is appended to the
\* messages, and the role's report becomes the response's text when the
\* response requests no operation and the empty string when it requests one.
C24_ReportWhenNoToolCalls ==
    [][ /\ round'.out.ok
        /\ state'.messages = Append(state.messages, round'.response)
        /\ state'[ReportField(round'.node)] =
               IF Len(round'.response.tool_calls) = 0 THEN round'.response.content
               ELSE "" ]_vars

\* The news analyst's second round requested nothing after a round that
\* requested an operation, and its text is the news report.
C24_Witness ==
    /\ round.node = "news"
    /\ Len(state.messages) = 2
    /\ state.messages[1].tool_calls # << >>
    /\ round.response.tool_calls = << >>
    /\ state.news_report = "FINAL TRANSACTION PROPOSAL: **HOLD**"

\* The sources the operation called last sent a request to.
SourcesRequested == {requests[i].tag : i \in 1..Len(requests)}

\* The sources an aggregation for this symbol with these credentials queries.
SourcesToQuery ==
    {Feeds[i].tag : i \in 1..Len(Feeds)}
    \cup (IF keys.cryptopanic THEN {"cryptopanic"} ELSE {})
    \cup (IF call.symbol # NoSymbol /\ upper(call.symbol) = <<"B", "T", "C">>
             THEN {BitcoinMagazine.tag} ELSE {})

\* C25: get_all_crypto_news queries the aggregator exactly when a credential
\* is configured, the four feeds in every aggregation, and Bitcoin Magazine
\* exactly when the symbol is BTC in any letter case.
C25_SourcesSelected ==
    call.op = "get_all_crypto_news" =>
        /\ Len(Feeds) = 4
        /\ SourcesRequested = SourcesToQuery

\* C26: every request a client sends is preceded by the rate-limit step of
\* its upstream's tag, which is what keeps two requests to one upstream the
\* minimum interval apart: no request goes out without a tag's step.
C26_EveryRequestRateLimited ==
    \A i \in 1..Len(requests) : requests[i].tag # ""

\* C27: the last-request timestamp of a source is process-wide, so two
\* successive calls of the convenience functions, each with a client of its
\* own, send their requests to one source at least the minimum interval apart.
C27_ProcessWidePacing ==
    (dispatched # NoDispatch /\ dispatched.before >= StartTime) =>
        dispatched.before + StatedInterval(dispatched.src[1]) <= dispatched.at

\* C28: every network call of every operation is made with a finite timeout,
\* so that an upstream that never responds cannot keep an operation, or the
\* news aggregation, from returning.
C28_EveryRequestTimed ==
    \A i \in 1..Len(requests) : request_timeout(requests[i]) > 0

\* The price provider answered the operation called last, for a ticker of
\* the static table, with a payload that has a "market_data" object (whatever
\* fields are in it).
PricePayloadArrived ==
    /\ call.op \in {"get_current_price", "get_market_data_summary"}
    /\ upper(call.symbol) \in DOMAIN SYMBOL_TO_ID
    /\ call.coin.status = "ok"
    /\ IsDict(call.coin.body)
    /\ HasKey(call.coin.body, "market_data")
    /\ IsDict(call.coin.body.obj["market_data"])

\* The gas oracle answered the operation called last with status "1" and a
\* result object (whatever tiers are in it).
GasPayloadArrived ==
    /\ call.op = "get_ethereum_gas_stats"
    /\ keys.etherscan
    /\ call.gas.status = "ok"
    /\ IsDict(call.gas.body)
    /\ Get(call.gas.body, "status", JNull) = JStr(<<"1">>)
    /\ IsDict(Get(call.gas.body, "result", EmptyDict))

\* C29: a successful payload with expected fields absent or null never makes
\* the price snapshot, its formatted summary or the gas snapshot fail: the
\* operation returns, with those fields as zero or empty.
C29_MissingFieldsTolerated ==
    (PricePayloadArrived \/ GasPayloadArrived) => result.ok

\* C30: a node that reads the operating mode and finds it neither 'crypto'
\* nor 'stock' (or absent) signals a contract violation: it raises, and no
\* operation set is bound for that round.
C30_UnknownModeSignalled ==
    (round.node \in {"market", "news", "social"} /\ config.asset_type \notin {Crypto, Stock}) =>
        ~round.out.ok


====
